---- MODULE Spec2Model ----
(***************************************************************************)
(* A model of the safe strings library (safe_strings.c / sstring.h).       *)
(*                                                                         *)
(* The heap is a map from addresses to blocks of cells; a string_t is a    *)
(* record {data, length, capacity, is_owner} held in a slot (slot 0 is the *)
(* NULL string_t pointer, address 0 the NULL data pointer).  size_t is a   *)
(* SizeBits-bit unsigned integer with wraparound.  Every C function is an  *)
(* operator from (heap, strs, arguments) to the SET of outcomes the build  *)
(* can produce: allocation may fail, realloc may keep or move the block,   *)
(* and an access outside a block is undefined behaviour, modelled as the   *)
(* two outcomes "the process faults" and "the stores the code makes are    *)
(* made" (pc = "crashed" / "ub"); nothing is explored past either.         *)
(***************************************************************************)
EXTENDS Integers, Sequences, FiniteSets, TLC

VARIABLES heap, strs, result, pc, fault, dest, limit, tracing, last, hist

vars == <<heap, strs, result, pc, fault, dest, limit, tracing, last, hist>>

(***************************************************************************)
(* Bounds of the model and constants of the program.                       *)
(***************************************************************************)
SizeBits == 8
MaxLen == 2

STRING_DEFAULT_CAPACITY == 64
STRING_GROWTH_FACTOR == 2

SizeMod == 2 ^ SizeBits
SIZE_MAX == SizeMod - 1
STRING_NPOS == SIZE_MAX

STRING_SUCCESS == "STRING_SUCCESS"
STRING_ERROR_NULL_POINTER == "STRING_ERROR_NULL_POINTER"
STRING_ERROR_OUT_OF_MEMORY == "STRING_ERROR_OUT_OF_MEMORY"
STRING_ERROR_INVALID_INDEX == "STRING_ERROR_INVALID_INDEX"
STRING_ERROR_BUFFER_TOO_SMALL == "STRING_ERROR_BUFFER_TOO_SMALL"
STRING_ERROR_INVALID_ARGUMENT == "STRING_ERROR_INVALID_ARGUMENT"

string_result_t ==
    { STRING_SUCCESS, STRING_ERROR_NULL_POINTER, STRING_ERROR_OUT_OF_MEMORY,
      STRING_ERROR_INVALID_INDEX, STRING_ERROR_BUFFER_TOO_SMALL,
      STRING_ERROR_INVALID_ARGUMENT }

\* size_t arithmetic: unsigned, SizeBits wide, wrapping.
SzAdd(a, b) == (a + b) % SizeMod
SzSub(a, b) == (a - b + SizeMod) % SizeMod
SzMul(a, b) == (a * b) % SizeMod

(***************************************************************************)
(* Memory.  An array is a sequence of cells, offset i being element i + 1; *)
(* a cell is a byte or Uninit (never written since malloc / realloc grew   *)
(* the block).  A heap block is its size and the array of its cells up to  *)
(* the highest one written so far, the cells after it being Uninit.  A     *)
(* free address holds the block of size 0.                                 *)
(***************************************************************************)
Addr == {1, 2, 3}
Slot == {1, 2}
Uninit == 0 - 1
Free == [size |-> 0, mem |-> <<>>]

NoFault == "none"

\* The string_t record, as typedef'd in the header.
string_t(d, l, c, o) == [data |-> d, length |-> l, capacity |-> c, is_owner |-> o]

\* A const char * argument: NULL, the caller's own array, or a pointer to
\* the start of a heap block (src->data of a string_t).
NullPtr == [kind |-> "null", addr |-> 0, bytes |-> <<>>]
ExtPtr(b) == [kind |-> "ext", addr |-> 0, bytes |-> b]
HeapPtr(a) == [kind |-> "heap", addr |-> a, bytes |-> <<>>]

Min(a, b) == IF a < b THEN a ELSE b
Max(a, b) == IF a > b THEN a ELSE b

\* The lowest free address other than `not`: where malloc / a moving realloc
\* puts a block (0 when the heap of the model is full).
FreeAddr(h, not) ==
    LET F == {a \in Addr : h[a] = Free /\ a # not}
    IN  IF F = {} THEN 0 ELSE CHOOSE a \in F : \A b \in F : a <= b

\* An outcome of a call: the memory after it, the value returned, whether
\* the call returned at all, the fault it committed, and the block a
\* realloc inside it released (address and last contents).
Outcome(h, S, r) ==
    [heap |-> h, strs |-> S, ret |-> r, pc |-> "run", fault |-> NoFault,
     freed |-> 0, stale |-> Free]

Hung(h, S) == [Outcome(h, S, "none") EXCEPT !.pc = "hung"]
Crashed(h, S, f) == [Outcome(h, S, "none") EXCEPT !.pc = "crashed", !.fault = f]
Undefined(h, S, r, f) == [Outcome(h, S, r) EXCEPT !.pc = "ub", !.fault = f]

\* What a constructor returns: a string_t pointer or NULL.
Created == "created"
ReturnedNull == "NULL"

\* Continue with f after a step that may have failed, hung or faulted.
Then(E, f(_)) ==
    UNION { IF e.pc = "run" /\ e.ret \in {STRING_SUCCESS, Created} THEN f(e) ELSE {e}
            : e \in E }

\* The outcomes of a call whose stores and loads are done: the plain one
\* when every access was inside a live block, else the two of undefined
\* behaviour (e0 being the memory before the call's stores, which is what a
\* faulting process leaves behind).
Done(e0, h, S, r, inbounds, live) ==
    IF ~inbounds
    THEN { Crashed(e0.heap, e0.strs, "overflow"), Undefined(h, S, r, "overflow") }
    ELSE IF ~live
    THEN { Crashed(e0.heap, e0.strs, "use_after_free"),
           Undefined(h, S, r, "use_after_free") }
    ELSE { Outcome(h, S, r) }

\* S with slot q holding record s / with slot q released.
Put(S, q, s) == [x \in DOMAIN S \cup {q} |-> IF x = q THEN s ELSE S[x]]
Drop(S, q) == [x \in DOMAIN S \ {q} |-> S[x]]

\* The array b with `bytes` stored from offset off on; stores past the end
\* of the array land outside it and are not part of it.
Store(b, off, bytes) ==
    [k \in 1..Len(b) |->
        IF k - 1 >= off /\ k - 1 < off + Len(bytes) THEN bytes[k - off] ELSE b[k]]

\* The n cells of the array b from offset off on; a load past its end
\* yields indeterminate cells.
Load(b, off, n) == [k \in 1..n |-> IF off + k <= Len(b) THEN b[off + k] ELSE Uninit]

\* The cell of a block at an offset inside it.
Cell(b, off) == IF off < Len(b.mem) THEN b.mem[off + 1] ELSE Uninit

\* The same for a heap block.
BStore(b, off, bytes) ==
    LET top == Max(Len(b.mem), Min(b.size, off + Len(bytes)))
    IN  [b EXCEPT !.mem =
            [k \in 1..top |->
                IF k - 1 >= off /\ k - 1 < off + Len(bytes) THEN bytes[k - off]
                ELSE IF k <= Len(b.mem) THEN b.mem[k] ELSE Uninit]]

BLoad(b, off, n) == Load(b.mem, off, n)

\* memset(b + off, c, n): n may be far larger than the block.
Fill(b, off, c, n) ==
    LET top == Max(Len(b.mem), Min(b.size, off + n))
    IN  [b EXCEPT !.mem =
            [k \in 1..top |->
                IF k - 1 >= off /\ k - 1 < off + n THEN c
                ELSE IF k <= Len(b.mem) THEN b.mem[k] ELSE Uninit]]

\* Whether reading n bytes through ptr touches no released block.
Live(e, ptr, n) == ~(n > 0 /\ ptr.kind = "heap" /\ ptr.addr = e.freed)

\* What a released block may hold when it is read: the bytes it held when
\* it was freed, or what the allocator has since written over them.
Clobber == 0 - 2
Reuse(e, ptr, n) == IF Live(e, ptr, n) THEN {FALSE} ELSE {FALSE, TRUE}

\* The n bytes a call reads through the pointer ptr, e being the outcome so
\* far: the caller's array, a live block, or the block e's realloc released
\* (clobbered or not).
Src(e, ptr, n, clobbered) ==
    IF ptr.kind = "ext" THEN Load(ptr.bytes, 0, n)
    ELSE IF ptr.addr = e.freed
         THEN [k \in 1..n |-> IF clobbered THEN Clobber ELSE BLoad(e.stale, 0, n)[k]]
    ELSE BLoad(e.heap[ptr.addr], 0, n)

\* strlen: the number of bytes before the first zero byte of the array.
strlen(cstr) ==
    (CHOOSE k \in 1..Len(cstr.bytes) :
        cstr.bytes[k] = 0 /\ \A j \in 1..(k - 1) : cstr.bytes[j] # 0) - 1

\* realloc(b, n) keeps the first min(old, n) cells; the rest is indeterminate.
Resized(b, n) == [size |-> n, mem |-> SubSeq(b.mem, 1, Min(Len(b.mem), n))]

(***************************************************************************)
(* Internal helper functions                                               *)
(***************************************************************************)
Diverges == 0 - 1

RECURSIVE string_calculate_growth(_, _)
\* The doubling loop; Diverges when new_capacity has wrapped to 0, from
\* where `new_capacity *= 2` never reaches required_capacity.
string_calculate_growth(current_capacity, required_capacity) ==
    IF ~(current_capacity < required_capacity) THEN current_capacity
    ELSE IF current_capacity = 0 THEN Diverges
    ELSE string_calculate_growth(SzMul(current_capacity, STRING_GROWTH_FACTOR),
                                 required_capacity)

\* realloc(S[p].data, n): fails, or resizes in place, or moves the block to
\* a fresh address and frees the old one.  `ret` is the result the caller
\* returns on failure.
Realloc(h, S, p, n) ==
    LET a == S[p].data
        b == Resized(h[a], n)
        t == FreeAddr(h, a)
    IN  { Outcome(h, S, STRING_ERROR_OUT_OF_MEMORY) }
        \cup { Outcome([h EXCEPT ![a] = b], [S EXCEPT ![p].capacity = n],
                       STRING_SUCCESS) }
        \cup { [Outcome([h EXCEPT ![a] = Free, ![t] = b],
                        [S EXCEPT ![p].data = t, ![p].capacity = n],
                        STRING_SUCCESS)
                  EXCEPT !.freed = a, !.stale = h[a]] : x \in {t} \ {0} }

\* A growth that does not look at the is_owner flag.
string_ensure_capacity_foreign(h, S, p, required_capacity) ==
    IF p = 0 THEN { Outcome(h, S, STRING_ERROR_NULL_POINTER) }
    ELSE IF S[p].capacity >= required_capacity THEN { Outcome(h, S, STRING_SUCCESS) }
    ELSE LET new_capacity ==
                 string_calculate_growth(S[p].capacity, required_capacity)
         IN  IF new_capacity = Diverges THEN { Hung(h, S) }
             ELSE Realloc(h, S, p, new_capacity)

\* A slip: the capacity field is updated before realloc's result is tested.
string_ensure_capacity_eager(h, S, p, required_capacity) ==
    IF p = 0 \/ ~S[p].is_owner THEN { Outcome(h, S, STRING_ERROR_NULL_POINTER) }
    ELSE IF S[p].capacity >= required_capacity THEN { Outcome(h, S, STRING_SUCCESS) }
    ELSE LET new_capacity ==
                 string_calculate_growth(S[p].capacity, required_capacity)
         IN  IF new_capacity = Diverges THEN { Hung(h, S) }
             ELSE { IF e.ret = STRING_SUCCESS THEN e
                    ELSE [e EXCEPT !.strs = [S EXCEPT ![p].capacity = new_capacity]]
                    : e \in Realloc(h, S, p, new_capacity) }

string_ensure_capacity(h, S, p, required_capacity) ==
    IF p = 0 \/ ~S[p].is_owner THEN { Outcome(h, S, STRING_ERROR_NULL_POINTER) }
    ELSE IF S[p].capacity >= required_capacity THEN { Outcome(h, S, STRING_SUCCESS) }
    ELSE LET new_capacity ==
                 string_calculate_growth(S[p].capacity, required_capacity)
         IN  IF new_capacity = Diverges THEN { Hung(h, S) }
             ELSE Realloc(h, S, p, new_capacity)

(***************************************************************************)
(* String creation and destruction functions.  A constructor's outcome     *)
(* puts the new string_t in slot q; ret is Created for a non-NULL return   *)
(* and ReturnedNull for NULL.                                              *)
(***************************************************************************)
string_create_with_capacity(h, S, q, capacity) ==
    LET cap == IF capacity = 0 THEN STRING_DEFAULT_CAPACITY ELSE capacity
        a == FreeAddr(h, 0)
        b == [size |-> cap, mem |-> <<0>>]
    IN  { Outcome(h, S, ReturnedNull) }
        \cup { Outcome([h EXCEPT ![a] = b], Put(S, q, string_t(a, 0, cap, TRUE)),
                       Created) : x \in {a} \ {0} }

string_create(h, S, q) == string_create_with_capacity(h, S, q, STRING_DEFAULT_CAPACITY)

string_create_from_buffer(h, S, q, buffer, length) ==
    IF buffer.kind = "null" /\ length > 0 THEN { Outcome(h, S, ReturnedNull) }
    ELSE LET c1 == SzAdd(length, 1)
             capacity == IF c1 < STRING_DEFAULT_CAPACITY
                         THEN STRING_DEFAULT_CAPACITY ELSE c1
             Copy(e) ==
                 LET a == e.strs[q].data
                     b1 == BStore(e.heap[a], 0, Src(e, buffer, length, FALSE))
                     b2 == BStore(b1, length, <<0>>)
                 IN  Done(e, [e.heap EXCEPT ![a] = b2],
                          [e.strs EXCEPT ![q].length = length], Created,
                          length < e.strs[q].capacity, TRUE)
         IN  Then(string_create_with_capacity(h, S, q, capacity), Copy)

string_create_from_cstr(h, S, q, cstr) ==
    IF cstr.kind = "null" THEN string_create(h, S, q)
    ELSE string_create_from_buffer(h, S, q, cstr, strlen(cstr))

\* src is a slot (0 for NULL); the clone goes to slot q.
\* A clone that shares the buffer of its source.
string_clone_shallow(h, S, q, src) ==
    IF src = 0 THEN { Outcome(h, S, ReturnedNull) }
    ELSE { Outcome(h, Put(S, q, S[src]), Created) }

string_clone(h, S, q, src) ==
    IF src = 0 THEN { Outcome(h, S, ReturnedNull) }
    ELSE string_create_from_buffer(h, S, q, HeapPtr(S[src].data), S[src].length)

string_destroy(h, S, p) ==
    IF p = 0 THEN { Outcome(h, S, "none") }
    ELSE IF S[p].is_owner /\ S[p].data # 0
         THEN { Outcome([h EXCEPT ![S[p].data] = Free], Drop(S, p), "none") }
         ELSE { Outcome(h, Drop(S, p), "none") }

(***************************************************************************)
(* String information functions                                            *)
(***************************************************************************)
string_length(S, p) == IF p # 0 THEN S[p].length ELSE 0

string_capacity(S, p) == IF p # 0 THEN S[p].capacity ELSE 0

string_is_empty(S, p) == p = 0 \/ S[p].length = 0

\* The bytes a reader of the returned pointer sees up to the first zero.
RECURSIVE UpToZero(_, _)
UpToZero(b, off) ==
    IF off >= Len(b) \/ b[off + 1] = 0 THEN <<>>
    ELSE <<b[off + 1]>> \o UpToZero(b, off + 1)

string_cstr(h, S, p) ==
    IF p # 0 /\ S[p].data # 0 THEN UpToZero(h[S[p].data].mem, 0) ELSE <<>>

(***************************************************************************)
(* String modification functions                                           *)
(***************************************************************************)
\* A reserve that sets the capacity to what is asked for, larger or not.
string_reserve_exact(h, S, p, new_capacity) ==
    IF p = 0 THEN { Outcome(h, S, STRING_ERROR_NULL_POINTER) }
    ELSE IF new_capacity = S[p].capacity THEN { Outcome(h, S, STRING_SUCCESS) }
    ELSE Realloc(h, S, p, new_capacity)

string_reserve(h, S, p, new_capacity) ==
    IF p = 0 THEN { Outcome(h, S, STRING_ERROR_NULL_POINTER) }
    ELSE IF new_capacity <= S[p].capacity THEN { Outcome(h, S, STRING_SUCCESS) }
    ELSE string_ensure_capacity(h, S, p, new_capacity)

string_resize(h, S, p, new_length) ==
    IF p = 0 THEN { Outcome(h, S, STRING_ERROR_NULL_POINTER) }
    ELSE LET Set(e) ==
                 LET s == e.strs[p]
                     b0 == e.heap[s.data]
                     b1 == IF new_length > s.length
                           THEN Fill(b0, s.length, 0, new_length - s.length)
                           ELSE b0
                     b2 == BStore(b1, new_length, <<0>>)
                 IN  Done(e, [e.heap EXCEPT ![s.data] = b2],
                          [e.strs EXCEPT ![p].length = new_length], STRING_SUCCESS,
                          new_length < s.capacity, TRUE)
         IN  Then(string_ensure_capacity(h, S, p, SzAdd(new_length, 1)), Set)

\* A clear that gives the buffer back down to the one byte it needs.
string_clear_shrinking(h, S, p) ==
    IF p = 0 THEN { Outcome(h, S, STRING_ERROR_NULL_POINTER) }
    ELSE Realloc([h EXCEPT ![S[p].data] = BStore(h[S[p].data], 0, <<0>>)],
                 [S EXCEPT ![p].length = 0], p, 1)

string_clear(h, S, p) ==
    IF p = 0 THEN { Outcome(h, S, STRING_ERROR_NULL_POINTER) }
    ELSE LET a == S[p].data
         IN  { Outcome(IF a # 0 THEN [h EXCEPT ![a] = BStore(h[a], 0, <<0>>)] ELSE h,
                       [S EXCEPT ![p].length = 0], STRING_SUCCESS) }

\* A shrink that reallocates also when the buffer is already length + 1.
string_shrink_to_fit_always(h, S, p) ==
    IF p = 0 \/ ~S[p].is_owner THEN { Outcome(h, S, STRING_ERROR_NULL_POINTER) }
    ELSE LET new_capacity == SzAdd(S[p].length, 1)
         IN  IF new_capacity > S[p].capacity THEN { Outcome(h, S, STRING_SUCCESS) }
             ELSE Realloc(h, S, p, new_capacity)

string_shrink_to_fit(h, S, p) ==
    IF p = 0 \/ ~S[p].is_owner THEN { Outcome(h, S, STRING_ERROR_NULL_POINTER) }
    ELSE LET new_capacity == SzAdd(S[p].length, 1)
         IN  IF new_capacity >= S[p].capacity THEN { Outcome(h, S, STRING_SUCCESS) }
             ELSE Realloc(h, S, p, new_capacity)

(***************************************************************************)
(* String assignment functions                                             *)
(***************************************************************************)
\* An assignment that never shortens the string.
string_assign_buffer_keeping(h, S, p, buffer, length) ==
    IF p = 0 THEN { Outcome(h, S, STRING_ERROR_NULL_POINTER) }
    ELSE IF buffer.kind = "null" /\ length > 0
    THEN { Outcome(h, S, STRING_ERROR_INVALID_ARGUMENT) }
    ELSE LET Copy(e) ==
                 LET s == e.strs[p]
                     n == Max(s.length, length)
                     b1 == BStore(e.heap[s.data], 0, Src(e, buffer, length, FALSE))
                     b2 == BStore(b1, n, <<0>>)
                 IN  { Outcome([e.heap EXCEPT ![s.data] = b2],
                               [e.strs EXCEPT ![p].length = n], STRING_SUCCESS) }
         IN  Then(string_ensure_capacity(h, S, p, SzAdd(length, 1)), Copy)

string_assign_buffer(h, S, p, buffer, length) ==
    IF p = 0 THEN { Outcome(h, S, STRING_ERROR_NULL_POINTER) }
    ELSE IF buffer.kind = "null" /\ length > 0
    THEN { Outcome(h, S, STRING_ERROR_INVALID_ARGUMENT) }
    ELSE LET Copy(e) ==
                 UNION { LET s == e.strs[p]
                             b1 == BStore(e.heap[s.data], 0, Src(e, buffer, length, g))
                             b2 == BStore(b1, length, <<0>>)
                         IN  Done(e, [e.heap EXCEPT ![s.data] = b2],
                                  [e.strs EXCEPT ![p].length = length], STRING_SUCCESS,
                                  length < s.capacity, Live(e, buffer, length))
                         : g \in Reuse(e, buffer, length) }
         IN  Then(string_ensure_capacity(h, S, p, SzAdd(length, 1)), Copy)

string_assign_cstr(h, S, p, cstr) ==
    IF p = 0 THEN { Outcome(h, S, STRING_ERROR_NULL_POINTER) }
    ELSE IF cstr.kind = "null" THEN string_clear(h, S, p)
    ELSE string_assign_buffer(h, S, p, cstr, strlen(cstr))

string_assign_string(h, S, dst, src) ==
    IF dst = 0 THEN { Outcome(h, S, STRING_ERROR_NULL_POINTER) }
    ELSE IF src = 0 THEN string_clear(h, S, dst)
    ELSE string_assign_buffer(h, S, dst, HeapPtr(S[src].data), S[src].length)

(***************************************************************************)
(* String concatenation functions                                          *)
(***************************************************************************)
string_append_buffer(h, S, p, buffer, length) ==
    IF p = 0 THEN { Outcome(h, S, STRING_ERROR_NULL_POINTER) }
    ELSE IF buffer.kind = "null" /\ length > 0
    THEN { Outcome(h, S, STRING_ERROR_INVALID_ARGUMENT) }
    ELSE IF length = 0 THEN { Outcome(h, S, STRING_SUCCESS) }
    ELSE LET new_length == SzAdd(S[p].length, length)
             Copy(e) ==
                 UNION { LET s == e.strs[p]
                             b1 == BStore(e.heap[s.data], s.length,
                                         Src(e, buffer, length, g))
                             b2 == BStore(b1, new_length, <<0>>)
                         IN  Done(e, [e.heap EXCEPT ![s.data] = b2],
                                  [e.strs EXCEPT ![p].length = new_length],
                                  STRING_SUCCESS,
                                  s.length + length < s.capacity,
                                  Live(e, buffer, length))
                         : g \in Reuse(e, buffer, length) }
         IN  Then(string_ensure_capacity(h, S, p, SzAdd(new_length, 1)), Copy)

string_append_cstr(h, S, p, cstr) ==
    IF p = 0 THEN { Outcome(h, S, STRING_ERROR_NULL_POINTER) }
    ELSE IF cstr.kind = "null" THEN { Outcome(h, S, STRING_SUCCESS) }
    ELSE string_append_buffer(h, S, p, cstr, strlen(cstr))

\* An append that takes the terminator of the source along as content.
string_append_string_terminated(h, S, dst, src) ==
    IF dst = 0 THEN { Outcome(h, S, STRING_ERROR_NULL_POINTER) }
    ELSE IF src = 0 THEN { Outcome(h, S, STRING_SUCCESS) }
    ELSE string_append_buffer(h, S, dst, HeapPtr(S[src].data), S[src].length + 1)

string_append_string(h, S, dst, src) ==
    IF dst = 0 THEN { Outcome(h, S, STRING_ERROR_NULL_POINTER) }
    ELSE IF src = 0 THEN { Outcome(h, S, STRING_SUCCESS) }
    ELSE string_append_buffer(h, S, dst, HeapPtr(S[src].data), S[src].length)

string_append_char(h, S, p, c) == string_append_buffer(h, S, p, ExtPtr(<<c>>), 1)

(***************************************************************************)
(* String insertion functions                                              *)
(***************************************************************************)
\* An insertion that stores the bytes over the tail instead of moving it.
string_insert_buffer_overwriting(h, S, p, index, buffer, length) ==
    IF p = 0 THEN { Outcome(h, S, STRING_ERROR_NULL_POINTER) }
    ELSE IF index > S[p].length THEN { Outcome(h, S, STRING_ERROR_INVALID_INDEX) }
    ELSE IF buffer.kind = "null" /\ length > 0
    THEN { Outcome(h, S, STRING_ERROR_INVALID_ARGUMENT) }
    ELSE IF length = 0 THEN { Outcome(h, S, STRING_SUCCESS) }
    ELSE LET new_length == SzAdd(S[p].length, length)
             Copy(e) ==
                 LET s == e.strs[p]
                     b2 == BStore(e.heap[s.data], index, Src(e, buffer, length, FALSE))
                     b3 == BStore(b2, new_length, <<0>>)
                 IN  { Outcome([e.heap EXCEPT ![s.data] = b3],
                               [e.strs EXCEPT ![p].length = new_length], STRING_SUCCESS) }
         IN  Then(string_ensure_capacity(h, S, p, SzAdd(new_length, 1)), Copy)

RECURSIVE Forward(_, _, _, _)
\* The block after n bytes are copied inside it from offset src to offset
\* dst one by one, lowest first, each load seeing the stores before it.
Forward(b, dst, src, n) ==
    IF n = 0 THEN b
    ELSE Forward(BStore(b, dst, <<Cell(b, src)>>), dst + 1, src + 1, n - 1)

string_insert_buffer(h, S, p, index, buffer, length) ==
    IF p = 0 THEN { Outcome(h, S, STRING_ERROR_NULL_POINTER) }
    ELSE IF index > S[p].length THEN { Outcome(h, S, STRING_ERROR_INVALID_INDEX) }
    ELSE IF buffer.kind = "null" /\ length > 0
    THEN { Outcome(h, S, STRING_ERROR_INVALID_ARGUMENT) }
    ELSE IF length = 0 THEN { Outcome(h, S, STRING_SUCCESS) }
    ELSE LET new_length == SzAdd(S[p].length, length)
             Copy(e) ==
                 UNION { LET s == e.strs[p]
                             b0 == e.heap[s.data]
                             \* memmove of the tail [index, length)
                             b1 == IF index < s.length
                                   THEN BStore(b0, index + length,
                                              BLoad(b0, index, s.length - index))
                                   ELSE b0
                             e1 == [e EXCEPT !.heap = [e.heap EXCEPT ![s.data] = b1]]
                             b2 == BStore(b1, index, Src(e1, buffer, length, g))
                             b3 == BStore(b2, new_length, <<0>>)
                             inbounds == s.length + length < s.capacity
                             \* memcpy(data + index, buffer, length) with buffer
                             \* the start of the same block: the two ranges
                             \* overlap, which memcpy leaves undefined
                             overlap == /\ buffer.kind = "heap" /\ buffer.addr = s.data
                                        /\ 0 < index /\ index < length
                             f3 == BStore(Forward(b1, index, 0, length), new_length, <<0>>)
                         IN  IF overlap /\ inbounds
                             THEN { Crashed(e.heap, e.strs, "overlap") }
                                  \cup { Undefined([e.heap EXCEPT ![s.data] = c],
                                                   [e.strs EXCEPT ![p].length = new_length],
                                                   STRING_SUCCESS, "overlap")
                                         : c \in {b3, f3} }
                             ELSE Done(e, [e.heap EXCEPT ![s.data] = b3],
                                       [e.strs EXCEPT ![p].length = new_length],
                                       STRING_SUCCESS, inbounds, Live(e, buffer, length))
                         : g \in Reuse(e, buffer, length) }
         IN  Then(string_ensure_capacity(h, S, p, SzAdd(new_length, 1)), Copy)

string_insert_cstr(h, S, p, index, cstr) ==
    IF p = 0 THEN { Outcome(h, S, STRING_ERROR_NULL_POINTER) }
    ELSE IF cstr.kind = "null" THEN { Outcome(h, S, STRING_SUCCESS) }
    ELSE string_insert_buffer(h, S, p, index, cstr, strlen(cstr))

\* An insert that tests the index before it looks at the source.
string_insert_string_checked(h, S, dst, index, src) ==
    IF dst = 0 THEN { Outcome(h, S, STRING_ERROR_NULL_POINTER) }
    ELSE IF index > S[dst].length THEN { Outcome(h, S, STRING_ERROR_INVALID_INDEX) }
    ELSE IF src = 0 THEN { Outcome(h, S, STRING_SUCCESS) }
    ELSE string_insert_buffer(h, S, dst, index, HeapPtr(S[src].data), S[src].length)

string_insert_string(h, S, dst, index, src) ==
    IF dst = 0 THEN { Outcome(h, S, STRING_ERROR_NULL_POINTER) }
    ELSE IF src = 0 THEN { Outcome(h, S, STRING_SUCCESS) }
    ELSE string_insert_buffer(h, S, dst, index, HeapPtr(S[src].data), S[src].length)

string_insert_char(h, S, p, index, c) ==
    string_insert_buffer(h, S, p, index, ExtPtr(<<c>>), 1)

(***************************************************************************)
(* String removal functions                                                *)
(***************************************************************************)
\* An erase that cuts the string short without moving its tail down.
string_erase_truncating(h, S, p, index, count) ==
    IF p = 0 THEN { Outcome(h, S, STRING_ERROR_NULL_POINTER) }
    ELSE IF index >= S[p].length THEN { Outcome(h, S, STRING_ERROR_INVALID_INDEX) }
    ELSE IF count = 0 THEN { Outcome(h, S, STRING_SUCCESS) }
    ELSE LET s == S[p]
             cnt == IF SzAdd(index, count) > s.length THEN s.length - index ELSE count
             new_length == SzSub(s.length, cnt)
         IN  { Outcome([h EXCEPT ![s.data] = BStore(h[s.data], new_length, <<0>>)],
                       [S EXCEPT ![p].length = new_length], STRING_SUCCESS) }

string_erase(h, S, p, index, count) ==
    IF p = 0 THEN { Outcome(h, S, STRING_ERROR_NULL_POINTER) }
    ELSE IF index >= S[p].length THEN { Outcome(h, S, STRING_ERROR_INVALID_INDEX) }
    ELSE IF count = 0 THEN { Outcome(h, S, STRING_SUCCESS) }
    ELSE LET s == S[p]
             \* `index + count > str->length` in size_t arithmetic
             cnt == IF SzAdd(index, count) > s.length THEN s.length - index ELSE count
             chars_after == SzSub(SzSub(s.length, index), cnt)
             \* the offset of data + index + count in the address space
             from == SzAdd(index, cnt)
             b0 == h[s.data]
             b1 == IF chars_after > 0
                   THEN BStore(b0, index, BLoad(b0, from, chars_after))
                   ELSE b0
             new_length == SzSub(s.length, cnt)
             b2 == BStore(b1, new_length, <<0>>)
             inbounds == /\ chars_after > 0 =>
                             /\ from + chars_after <= s.capacity
                             /\ index + chars_after <= s.capacity
                         /\ new_length < s.capacity
         IN  Done(Outcome(h, S, STRING_SUCCESS), [h EXCEPT ![s.data] = b2],
                  [S EXCEPT ![p].length = new_length],
                  STRING_SUCCESS, inbounds, TRUE)

string_pop_back(h, S, p) ==
    IF p = 0 \/ S[p].length = 0 THEN { Outcome(h, S, STRING_ERROR_INVALID_INDEX) }
    ELSE LET n == S[p].length - 1
         IN  { Outcome([h EXCEPT ![S[p].data] = BStore(h[S[p].data], n, <<0>>)],
                       [S EXCEPT ![p].length = n], STRING_SUCCESS) }

(***************************************************************************)
(* String access functions                                                 *)
(***************************************************************************)
string_at(h, S, p, index) ==
    IF p = 0 \/ index >= S[p].length THEN 0 ELSE Cell(h[S[p].data], index)

string_set_at(h, S, p, index, c) ==
    IF p = 0 THEN { Outcome(h, S, STRING_ERROR_NULL_POINTER) }
    ELSE IF index >= S[p].length THEN { Outcome(h, S, STRING_ERROR_INVALID_INDEX) }
    ELSE { Outcome([h EXCEPT ![S[p].data] = BStore(h[S[p].data], index, <<c>>)], S,
                   STRING_SUCCESS) }

(***************************************************************************)
(* String comparison functions                                             *)
(***************************************************************************)
RECURSIVE memcmp(_, _, _)
\* The sign of memcmp over the first n cells of two arrays.
memcmp(x, y, n) ==
    IF n = 0 THEN 0
    ELSE IF x[1] < y[1] THEN 0 - 1
    ELSE IF x[1] > y[1] THEN 1
    ELSE memcmp(Tail(x), Tail(y), n - 1)

\* A comparison that stops at the end of the shorter string.
string_compare_prefix(h, S, str1, str2) ==
    IF str1 = 0 /\ str2 = 0 THEN 0
    ELSE IF str1 = 0 THEN 0 - 1
    ELSE IF str2 = 0 THEN 1
    ELSE LET min_len == IF S[str1].length < S[str2].length
                        THEN S[str1].length ELSE S[str2].length
         IN  memcmp(BLoad(h[S[str1].data], 0, min_len),
                    BLoad(h[S[str2].data], 0, min_len), min_len)

string_compare(h, S, str1, str2) ==
    IF str1 = 0 /\ str2 = 0 THEN 0
    ELSE IF str1 = 0 THEN 0 - 1
    ELSE IF str2 = 0 THEN 1
    ELSE LET min_len == IF S[str1].length < S[str2].length
                        THEN S[str1].length ELSE S[str2].length
             res == memcmp(BLoad(h[S[str1].data], 0, min_len),
                           BLoad(h[S[str2].data], 0, min_len), min_len)
         IN  IF res = 0 /\ S[str1].length < S[str2].length THEN 0 - 1
             ELSE IF res = 0 /\ S[str1].length > S[str2].length THEN 1
             ELSE res

string_equals(h, S, str1, str2) == string_compare(h, S, str1, str2) = 0

RECURSIVE strcmp(_, _, _)
\* The sign of strcmp over two arrays that each hold a zero byte, from
\* offset off on: the first byte that differs decides, and the comparison
\* ends at a zero byte the two share.
strcmp(x, y, off) ==
    LET a == IF off < Len(x) THEN x[off + 1] ELSE 0
        b == IF off < Len(y) THEN y[off + 1] ELSE 0
    IN  IF a < b THEN 0 - 1
        ELSE IF a > b THEN 1
        ELSE IF a = 0 THEN 0
        ELSE strcmp(x, y, off + 1)

string_compare_cstr(h, S, str, cstr) ==
    IF str = 0 /\ cstr.kind = "null" THEN 0
    ELSE IF str = 0 THEN 0 - 1
    ELSE IF cstr.kind = "null" THEN 1
    ELSE strcmp(h[S[str].data].mem, cstr.bytes, 0)

string_equals_cstr(h, S, str, cstr) == string_compare_cstr(h, S, str, cstr) = 0

(***************************************************************************)
(* String search functions                                                 *)
(***************************************************************************)
RECURSIVE FindCharFrom(_, _, _, _)
\* The loop of string_find_char from i on.
FindCharFrom(b, c, i, length) ==
    IF i >= length THEN STRING_NPOS
    ELSE IF Cell(b, i) = c THEN i
    ELSE FindCharFrom(b, c, i + 1, length)

\* A search that starts at offset 0 whatever start_pos is.
string_find_char_whole(h, S, str, c, start_pos) ==
    IF str = 0 \/ start_pos >= S[str].length THEN STRING_NPOS
    ELSE FindCharFrom(h[S[str].data], c, 0, S[str].length)

string_find_char(h, S, str, c, start_pos) ==
    IF str = 0 \/ start_pos >= S[str].length THEN STRING_NPOS
    ELSE FindCharFrom(h[S[str].data], c, start_pos, S[str].length)

RECURSIVE FindFrom(_, _, _, _, _)
\* The loop of string_find_cstr from i on.
FindFrom(b, pattern, substr_len, i, length) ==
    IF i > length - substr_len THEN STRING_NPOS
    ELSE IF memcmp(BLoad(b, i, substr_len), pattern, substr_len) = 0 THEN i
    ELSE FindFrom(b, pattern, substr_len, i + 1, length)

string_find_cstr(h, S, str, substr, start_pos) ==
    IF str = 0 \/ substr.kind = "null" \/ start_pos >= S[str].length THEN STRING_NPOS
    ELSE LET substr_len == strlen(substr)
         IN  IF substr_len = 0 THEN start_pos
             ELSE IF SzAdd(start_pos, substr_len) > S[str].length THEN STRING_NPOS
             ELSE FindFrom(h[S[str].data], Load(substr.bytes, 0, substr_len),
                           substr_len, start_pos, S[str].length)

\* substr->data is handed on as a null terminated source.
string_find_string(h, S, str, substr, start_pos) ==
    IF str = 0 \/ substr = 0 THEN STRING_NPOS
    ELSE string_find_cstr(h, S, str, ExtPtr(h[S[substr].data].mem), start_pos)

RECURSIVE RfindCharFrom(_, _, _)
\* The loop of string_rfind_char from i down.
RfindCharFrom(b, c, i) ==
    IF i = 0 THEN STRING_NPOS
    ELSE IF Cell(b, i - 1) = c THEN i - 1
    ELSE RfindCharFrom(b, c, i - 1)

\* A backward search that stops before offset 0.
string_rfind_char_short(h, S, str, c, start_pos) ==
    IF str = 0 \/ S[str].length = 0 THEN STRING_NPOS
    ELSE LET start == IF start_pos >= S[str].length THEN S[str].length - 1 ELSE start_pos
             found == RfindCharFrom(h[S[str].data], c, SzAdd(start, 1))
         IN  IF found = 0 THEN STRING_NPOS ELSE found

string_rfind_char(h, S, str, c, start_pos) ==
    IF str = 0 \/ S[str].length = 0 THEN STRING_NPOS
    ELSE LET start == IF start_pos >= S[str].length THEN S[str].length - 1 ELSE start_pos
         IN  RfindCharFrom(h[S[str].data], c, SzAdd(start, 1))

(***************************************************************************)
(* String utility functions                                                *)
(***************************************************************************)
\* <ctype.h> in the "C" locale, on the byte values.
toupper(c) == IF c >= 97 /\ c <= 122 THEN c - 32 ELSE c
tolower(c) == IF c >= 65 /\ c <= 90 THEN c + 32 ELSE c
isspace(c) == c \in {32, 9, 10, 11, 12, 13}

\* The block with every byte of [0, n) replaced by its image under f.
MapBytes(b, n, f(_)) ==
    [b EXCEPT !.mem = [k \in 1..Len(b.mem) |-> IF k <= n THEN f(b.mem[k]) ELSE b.mem[k]]]

string_to_upper(h, S, p) ==
    IF p = 0 THEN { Outcome(h, S, STRING_ERROR_NULL_POINTER) }
    ELSE { Outcome([h EXCEPT ![S[p].data] = MapBytes(h[S[p].data], S[p].length, toupper)],
                   S, STRING_SUCCESS) }

string_to_lower(h, S, p) ==
    IF p = 0 THEN { Outcome(h, S, STRING_ERROR_NULL_POINTER) }
    ELSE { Outcome([h EXCEPT ![S[p].data] = MapBytes(h[S[p].data], S[p].length, tolower)],
                   S, STRING_SUCCESS) }

\* A trim that cuts the length without moving the content to the front.
string_trim_unmoved(h, S, p) ==
    IF p = 0 \/ S[p].length = 0 THEN { Outcome(h, S, STRING_ERROR_NULL_POINTER) }
    ELSE LET s == S[p]
             b0 == h[s.data]
             start == CHOOSE k \in 0..s.length :
                          /\ \A j \in 0..(k - 1) : isspace(Cell(b0, j))
                          /\ (k = s.length \/ ~isspace(Cell(b0, k)))
             end == CHOOSE k \in start..s.length :
                        /\ \A j \in k..(s.length - 1) : isspace(Cell(b0, j))
                        /\ (k = start \/ ~isspace(Cell(b0, k - 1)))
         IN  { Outcome([h EXCEPT ![s.data] = BStore(b0, end - start, <<0>>)],
                       [S EXCEPT ![p].length = end - start], STRING_SUCCESS) }

string_trim(h, S, p) ==
    IF p = 0 \/ S[p].length = 0 THEN { Outcome(h, S, STRING_ERROR_NULL_POINTER) }
    ELSE LET s == S[p]
             b0 == h[s.data]
             \* where the two while loops stop
             start == CHOOSE k \in 0..s.length :
                          /\ \A j \in 0..(k - 1) : isspace(Cell(b0, j))
                          /\ (k = s.length \/ ~isspace(Cell(b0, k)))
             end == CHOOSE k \in start..s.length :
                        /\ \A j \in k..(s.length - 1) : isspace(Cell(b0, j))
                        /\ (k = start \/ ~isspace(Cell(b0, k - 1)))
             b1 == IF start > 0 THEN BStore(b0, 0, BLoad(b0, start, end - start)) ELSE b0
             b2 == BStore(b1, end - start, <<0>>)
         IN  { Outcome([h EXCEPT ![s.data] = b2], [S EXCEPT ![p].length = end - start],
                       STRING_SUCCESS) }

string_replace_char(h, S, p, old_char, new_char) ==
    IF p = 0 THEN { Outcome(h, S, STRING_ERROR_NULL_POINTER) }
    ELSE LET Repl(c) == IF c = old_char THEN new_char ELSE c
         IN  { Outcome([h EXCEPT ![S[p].data] = MapBytes(h[S[p].data], S[p].length, Repl)],
                       S, STRING_SUCCESS) }

(***************************************************************************)
(* String copying functions                                                *)
(***************************************************************************)
\* buffer is the caller's array (a pointer argument); the value is the
\* result returned and the array after the call.
\* A copy that takes buffer_size for the room left for content.
string_copy_to_buffer_full(h, S, p, buffer, buffer_size) ==
    IF p = 0 \/ buffer.kind = "null"
    THEN [ret |-> STRING_ERROR_NULL_POINTER, buffer |-> buffer.bytes]
    ELSE IF buffer_size = 0
    THEN [ret |-> STRING_ERROR_BUFFER_TOO_SMALL, buffer |-> buffer.bytes]
    ELSE LET copy_length == Min(S[p].length, buffer_size)
             d1 == Store(buffer.bytes, 0, BLoad(h[S[p].data], 0, copy_length))
             d2 == Store(d1, copy_length, <<0>>)
         IN  [ret |-> IF copy_length = S[p].length
                      THEN STRING_SUCCESS ELSE STRING_ERROR_BUFFER_TOO_SMALL,
              buffer |-> d2]

string_copy_to_buffer(h, S, p, buffer, buffer_size) ==
    IF p = 0 \/ buffer.kind = "null"
    THEN [ret |-> STRING_ERROR_NULL_POINTER, buffer |-> buffer.bytes]
    ELSE IF buffer_size = 0
    THEN [ret |-> STRING_ERROR_BUFFER_TOO_SMALL, buffer |-> buffer.bytes]
    ELSE LET copy_length == IF S[p].length >= buffer_size
                            THEN buffer_size - 1 ELSE S[p].length
             d1 == Store(buffer.bytes, 0, BLoad(h[S[p].data], 0, copy_length))
             d2 == Store(d1, copy_length, <<0>>)
         IN  [ret |-> IF copy_length = S[p].length
                      THEN STRING_SUCCESS ELSE STRING_ERROR_BUFFER_TOO_SMALL,
              buffer |-> d2]

(***************************************************************************)
(* String formatting functions.  vsnprintf is a service outside the        *)
(* library: for a format and its arguments it reports a length (negative   *)
(* on an encoding error) and, given room for length + 1 bytes, writes that *)
(* many bytes and a terminator.  `out` is what it yields for the call.     *)
(***************************************************************************)
Formatted(r, b) == [len |-> r, bytes |-> b]

\* int is half as wide as size_t (the LP64 data model).
IntBits == SizeBits \div 2
INT_MAX == 2 ^ (IntBits - 1) - 1

\* `required_length + 1` as the size_t argument it becomes.  The sum is made
\* in int: at INT_MAX it overflows, which is undefined; a build that does
\* not trap wraps it to INT_MIN, sign-extended by the conversion.
Successor(required_length) ==
    IF required_length = INT_MAX THEN SizeMod - 2 ^ (IntBits - 1)
    ELSE required_length + 1

\* vsnprintf(b + off, size, format, args) on a block, `out` being what the
\* format and arguments yield: at most size - 1 bytes and a terminator are
\* written.  A size above INT_MAX is refused (EOVERFLOW, nothing written) by
\* the libraries that follow POSIX and served by the others.
vsnprintf(b, off, size, out) ==
    LET n == Min(out.len, size - 1)
    IN  IF size = 0 THEN { b }
        ELSE { BStore(b, off, SubSeq(out.bytes, 1, n) \o <<0>>) }
             \cup (IF size > INT_MAX THEN { b } ELSE {})

\* The outcomes of a call that has overflowed an int: the process traps, or
\* goes on with the wrapped value and ends as in E.
Overflowed(h, S, E) ==
    { Crashed(h, S, "signed_overflow") }
    \cup { IF e.pc = "run" THEN [e EXCEPT !.pc = "ub", !.fault = "signed_overflow"] ELSE e
           : e \in E }

string_format(h, S, p, format, out) ==
    IF p = 0 \/ format.kind = "null" THEN { Outcome(h, S, STRING_ERROR_NULL_POINTER) }
    ELSE LET required_length == out.len
             Write(e) ==
                 LET s == e.strs[p]
                 IN  UNION { Done(e, [e.heap EXCEPT ![s.data] = c],
                                  [e.strs EXCEPT ![p].length = required_length],
                                  STRING_SUCCESS, required_length < s.capacity, TRUE)
                             : c \in vsnprintf(e.heap[s.data], 0,
                                               Successor(required_length), out) }
             E == Then(string_ensure_capacity(h, S, p, Successor(required_length)), Write)
         IN  IF required_length < 0 THEN { Outcome(h, S, STRING_ERROR_INVALID_ARGUMENT) }
             ELSE IF required_length = INT_MAX THEN Overflowed(h, S, E)
             ELSE E

string_append_format(h, S, p, format, out) ==
    IF p = 0 \/ format.kind = "null" THEN { Outcome(h, S, STRING_ERROR_NULL_POINTER) }
    ELSE LET required_length == out.len
             new_length == SzAdd(S[p].length, required_length)
             Write(e) ==
                 LET s == e.strs[p]
                     W == UNION { Done(e, [e.heap EXCEPT ![s.data] = c],
                                       [e.strs EXCEPT ![p].length = new_length],
                                       STRING_SUCCESS,
                                       s.length + required_length < s.capacity, TRUE)
                                  : c \in vsnprintf(e.heap[s.data], s.length,
                                                    Successor(required_length), out) }
                 IN  IF required_length = INT_MAX THEN Overflowed(e.heap, e.strs, W)
                     ELSE W
         IN  IF required_length < 0 THEN { Outcome(h, S, STRING_ERROR_INVALID_ARGUMENT) }
             ELSE Then(string_ensure_capacity(h, S, p, SzAdd(new_length, 1)), Write)

(***************************************************************************)
(* The callers.  A step is one call of a public function on the strings    *)
(* the caller holds (slots) with arguments from small sets; `result` is    *)
(* what the call returned and `dest` the caller's array after              *)
(* string_copy_to_buffer.  `limit` is the length past which the model      *)
(* follows no string.  `last` and `hist` are history, kept when `tracing`  *)
(* is "full": the call made with the target's content before it (and, for a   *)
(* string_erase, the string_insert_buffer it follows), and the fragments   *)
(* appended to slot 1 since it was created empty.                          *)
(***************************************************************************)
Byte == {0, 32, 97}

RECURSIVE SeqsUpTo(_, _)
SeqsUpTo(A, n) ==
    IF n = 0 THEN { <<>> }
    ELSE LET R == SeqsUpTo(A, n - 1)
         IN  R \cup { Append(r, a) : r \in {x \in R : Len(x) = n - 1}, a \in A }

MaxFrag == 2

\* Caller arrays: the buffers with an explicit length, and the null
\* terminated sources (which may hold bytes after their first zero).
Buffers == { ExtPtr(b) : b \in SeqsUpTo(Byte, MaxFrag) }
Sources == { ExtPtr(b \o <<0>>) : b \in SeqsUpTo(Byte, MaxFrag) }

\* size_t arguments: the small values and the ones near the top of the type.
SmallSizes == 0..(MaxLen + 1)
HugeSizes == {SIZE_MAX - 1, SIZE_MAX}

\* What vsnprintf can yield.
Formats == { Formatted(Len(b), b) : b \in SeqsUpTo(Byte \ {0}, MaxFrag) }
               \cup { Formatted(0 - 1, <<>>), Formatted(INT_MAX, [k \in 1..INT_MAX |-> 97]) }

Held == DOMAIN strs
Targets == Held \cup {0}

Content(h, S, p) == BLoad(h[S[p].data], 0, S[p].length)

View(h, S, p) ==
    [content |-> Content(h, S, p), length |-> S[p].length, capacity |-> S[p].capacity]

NoView == [content |-> <<>>, length |-> 0, capacity |-> 0]

\* What a string_erase(s, i, n) call remembers of the call before it, when
\* that was a string_insert_buffer(s, i, b, n): its arguments, its result
\* and the string before it.
NoInsert == [index |-> 0, bytes |-> <<>>, ret |-> "none", pre |-> NoView]

Before(op, tgt, index, count) ==
    IF /\ op = "erase" /\ last.op = "insert_buffer" /\ last.tgt = tgt /\ tgt \in Held
       /\ last.index = index /\ Len(last.bytes) = count
    THEN [index |-> last.index, bytes |-> last.bytes, ret |-> result, pre |-> last.pre]
    ELSE NoInsert

\* What a string_shrink_to_fit(s) call remembers of the call before it, when
\* that was a string_shrink_to_fit(s) too: its result.
First(op, tgt) ==
    IF op = "shrink_to_fit" /\ last.op = "shrink_to_fit" /\ last.tgt = tgt /\ tgt \in Held
    THEN result
    ELSE "none"

Call(op, tgt, src, bytes, index, count) ==
    [op |-> op, tgt |-> tgt, src |-> src, bytes |-> bytes, index |-> index,
     count |-> count,
     pre |-> IF tgt \in Held THEN View(heap, strs, tgt) ELSE NoView,
     insert |-> Before(op, tgt, index, count),
     first |-> First(op, tgt)]

NoCall == [op |-> "none", tgt |-> 0, src |-> 0, bytes |-> <<>>, index |-> 0, count |-> 0,
           pre |-> NoView, insert |-> NoInsert, first |-> "none"]

NoHist == [tracked |-> FALSE, bytes |-> <<>>]
NoDest == <<>>

\* What `last` keeps of the call c: nothing, the function with the strings
\* it was given, or all of it.
Trace(c) ==
    IF tracing = "full" THEN c
    ELSE IF tracing = "brief"
    THEN [NoCall EXCEPT !.op = c.op, !.tgt = c.tgt, !.src = c.src]
    ELSE NoCall

\* The model follows no string past `limit` bytes.
Bounded(e) == e.pc = "run" => \A p \in DOMAIN e.strs : e.strs[p].length <= limit

\* hist after the call c with outcome e.
Tracked(c, e) ==
    IF c.tgt # 1 THEN hist
    ELSE IF c.op \in {"create", "create_with_capacity", "create_from_buffer",
                      "create_from_cstr", "clone"}
    THEN [tracked |-> e.ret = Created /\ e.strs[1].length = 0, bytes |-> <<>>]
    ELSE IF c.op \in {"append_buffer", "append_cstr", "append_string", "append_char"}
    THEN IF e.ret = STRING_SUCCESS
         THEN [hist EXCEPT !.bytes = IF hist.tracked THEN @ \o c.bytes ELSE @]
         ELSE hist
    ELSE NoHist

Step(E, c) ==
    /\ pc = "run"
    /\ \E e \in E :
          /\ Bounded(e)
          /\ heap' = e.heap
          /\ strs' = e.strs
          /\ result' = e.ret
          /\ pc' = e.pc
          /\ fault' = e.fault
          /\ last' = Trace(c)
          /\ hist' = IF tracing = "full" THEN Tracked(c, e) ELSE NoHist
          /\ dest' = NoDest
          /\ UNCHANGED <<limit, tracing>>

\* The state after start-up: no string, nothing on the heap.
Start(l, t) ==
    /\ heap = [a \in Addr |-> Free]
    /\ strs = [q \in {} |-> NoView]
    /\ result = "none"
    /\ pc = "run"
    /\ fault = NoFault
    /\ dest = NoDest
    /\ limit = l
    /\ tracing = t
    /\ last = NoCall
    /\ hist = NoHist

Init == Start(MaxLen, "off")

\* The bytes a reader takes from a source: those before its first zero.
Text(c) == IF c.kind = "null" THEN <<>> ELSE UpToZero(c.bytes, 0)

\* The content of the string src points to (nothing for NULL).
Of(src) == IF src = 0 THEN <<>> ELSE Content(heap, strs, src)

Create(q) ==
    Step(string_create(heap, strs, q), Call("create", q, 0, <<>>, 0, 0))

CreateWithCapacity(q, n) ==
    Step(string_create_with_capacity(heap, strs, q, n),
         Call("create_with_capacity", q, 0, <<>>, 0, n))

CreateFromBuffer(q, b) ==
    Step(string_create_from_buffer(heap, strs, q, b, Len(b.bytes)),
         Call("create_from_buffer", q, 0, b.bytes, 0, Len(b.bytes)))

CreateFromCstr(q, c) ==
    Step(string_create_from_cstr(heap, strs, q, c),
         Call("create_from_cstr", q, 0, Text(c), 0, 0))

Clone(q, src) ==
    Step(string_clone(heap, strs, q, src),
         Call("clone", q, src, IF src = 0 THEN <<>> ELSE Content(heap, strs, src), 0, 0))

Destroy(p) ==
    Step(string_destroy(heap, strs, p), Call("destroy", p, 0, <<>>, 0, 0))

Reserve(p, n) ==
    Step(string_reserve(heap, strs, p, n), Call("reserve", p, 0, <<>>, 0, n))

Resize(p, n) ==
    Step(string_resize(heap, strs, p, n), Call("resize", p, 0, <<>>, 0, n))

Clear(p) ==
    Step(string_clear(heap, strs, p), Call("clear", p, 0, <<>>, 0, 0))

ShrinkToFit(p) ==
    Step(string_shrink_to_fit(heap, strs, p), Call("shrink_to_fit", p, 0, <<>>, 0, 0))

AssignBuffer(p, b) ==
    Step(string_assign_buffer(heap, strs, p, b, Len(b.bytes)),
         Call("assign_buffer", p, 0, b.bytes, 0, Len(b.bytes)))

AssignCstr(p, c) ==
    Step(string_assign_cstr(heap, strs, p, c), Call("assign_cstr", p, 0, Text(c), 0, 0))

AssignString(p, src) ==
    Step(string_assign_string(heap, strs, p, src),
         Call("assign_string", p, src, Of(src), 0, 0))

AppendBuffer(p, b) ==
    Step(string_append_buffer(heap, strs, p, b, Len(b.bytes)),
         Call("append_buffer", p, 0, b.bytes, 0, Len(b.bytes)))

AppendCstr(p, c) ==
    Step(string_append_cstr(heap, strs, p, c), Call("append_cstr", p, 0, Text(c), 0, 0))

AppendString(p, src) ==
    Step(string_append_string(heap, strs, p, src),
         Call("append_string", p, src, Of(src), 0, 0))

AppendChar(p, c) ==
    Step(string_append_char(heap, strs, p, c), Call("append_char", p, 0, <<c>>, 0, 0))

InsertBuffer(p, i, b) ==
    Step(string_insert_buffer(heap, strs, p, i, b, Len(b.bytes)),
         Call("insert_buffer", p, 0, b.bytes, i, Len(b.bytes)))

InsertCstr(p, i, c) ==
    Step(string_insert_cstr(heap, strs, p, i, c), Call("insert_cstr", p, 0, Text(c), i, 0))

InsertString(p, i, src) ==
    Step(string_insert_string(heap, strs, p, i, src),
         Call("insert_string", p, src, Of(src), i, 0))

InsertChar(p, i, c) ==
    Step(string_insert_char(heap, strs, p, i, c), Call("insert_char", p, 0, <<c>>, i, 0))

Erase(p, i, n) ==
    Step(string_erase(heap, strs, p, i, n), Call("erase", p, 0, <<>>, i, n))

PopBack(p) ==
    Step(string_pop_back(heap, strs, p), Call("pop_back", p, 0, <<>>, 0, 0))

SetAt(p, i, c) ==
    Step(string_set_at(heap, strs, p, i, c), Call("set_at", p, 0, <<c>>, i, 0))

ToUpper(p) ==
    Step(string_to_upper(heap, strs, p), Call("to_upper", p, 0, <<>>, 0, 0))

ToLower(p) ==
    Step(string_to_lower(heap, strs, p), Call("to_lower", p, 0, <<>>, 0, 0))

Trim(p) ==
    Step(string_trim(heap, strs, p), Call("trim", p, 0, <<>>, 0, 0))

ReplaceChar(p, c, d) ==
    Step(string_replace_char(heap, strs, p, c, d), Call("replace_char", p, 0, <<c, d>>, 0, 0))

Format(p, f, out) ==
    Step(string_format(heap, strs, p, f, out), Call("format", p, 0, out.bytes, 0, out.len))

AppendFormat(p, f, out) ==
    Step(string_append_format(heap, strs, p, f, out),
         Call("append_format", p, 0, out.bytes, 0, out.len))

\* The caller sets up a string_t of its own in slot q, over an array it has
\* allocated itself (the bytes b, a terminator, capacity cells in all), and
\* marks it as not owning the memory.
Borrow(q, b, capacity) ==
    LET a == FreeAddr(heap, 0)
    IN  /\ a # 0
        /\ Step({ Outcome([heap EXCEPT ![a] = [size |-> capacity, mem |-> b \o <<0>>]],
                          Put(strs, q, string_t(a, Len(b), capacity, FALSE)), "none") },
                Call("borrow", q, 0, b, 0, capacity))

\* A call that reads the strings and returns the value v.
Query(v, c) ==
    /\ pc = "run"
    /\ result' = v
    /\ last' = Trace(c)
    /\ dest' = NoDest
    /\ UNCHANGED <<heap, strs, pc, fault, limit, tracing, hist>>

Compare(a, b) ==
    Query(string_compare(heap, strs, a, b), Call("compare", a, b, <<>>, 0, 0))

Equals(a, b) ==
    Query(string_equals(heap, strs, a, b), Call("equals", a, b, <<>>, 0, 0))

CompareCstr(p, c) ==
    Query(string_compare_cstr(heap, strs, p, c), Call("compare_cstr", p, 0, c.bytes, 0, 0))

EqualsCstr(p, c) ==
    Query(string_equals_cstr(heap, strs, p, c), Call("equals_cstr", p, 0, c.bytes, 0, 0))

FindChar(p, c, i) ==
    Query(string_find_char(heap, strs, p, c, i), Call("find_char", p, 0, <<c>>, i, 0))

FindCstr(p, c, i) ==
    Query(string_find_cstr(heap, strs, p, c, i), Call("find_cstr", p, 0, c.bytes, i, 0))

FindString(p, src, i) ==
    Query(string_find_string(heap, strs, p, src, i), Call("find_string", p, src, Of(src), i, 0))

RfindChar(p, c, i) ==
    Query(string_rfind_char(heap, strs, p, c, i), Call("rfind_char", p, 0, <<c>>, i, 0))

\* The caller's array: DestSize indeterminate cells, of which the call is
\* told the first k.
DestSize == MaxLen + 2
NewArray == [k \in 1..DestSize |-> Uninit]

CopyToBuffer(p, buf, k) ==
    /\ pc = "run"
    /\ LET r == string_copy_to_buffer(heap, strs, p, buf, k)
       IN  /\ result' = r.ret
           /\ dest' = r.buffer
    /\ last' = Trace(Call("copy_to_buffer", p, 0, buf.bytes, 0, k))
    /\ UNCHANGED <<heap, strs, pc, fault, limit, tracing, hist>>

(***************************************************************************)
(* Spec: every public function that creates, changes or copies out a       *)
(* string, called on one string (or on NULL) with every kind of argument:  *)
(* in range, out of range, near the top of size_t, NULL, the string        *)
(* itself as the source.                                                   *)
(***************************************************************************)
Indexes == 0..MaxLen \cup {SIZE_MAX}
Counts == 0..MaxLen \cup HugeSizes
Pointers == Buffers \cup {NullPtr}
Texts == Sources \cup {NullPtr}
Capacities == {0, 1, 2, STRING_DEFAULT_CAPACITY}
Reserves == {0, MaxLen + 2, STRING_DEFAULT_CAPACITY + 1} \cup HugeSizes
Templates == {NullPtr, ExtPtr(<<0>>)}
Arrays == {NullPtr, ExtPtr(NewArray)}

\* The arguments tried with the target p: all of A for a string, one for NULL.
For(p, A) == IF p = 0 THEN {CHOOSE a \in A : TRUE} ELSE A

One == {1}

Next ==
    \/ \E q \in One \ Held : Create(q)
    \/ \E q \in One \ Held, n \in Capacities : CreateWithCapacity(q, n)
    \/ \E q \in One \ Held, b \in Pointers : CreateFromBuffer(q, b)
    \/ \E q \in One \ Held, c \in Texts : CreateFromCstr(q, c)
    \/ \E q \in One \ Held, src \in Targets : Clone(q, src)
    \/ \E p \in Targets : Destroy(p)
    \/ \E p \in Targets : \E n \in For(p, Reserves) : Reserve(p, n)
    \/ \E p \in Targets : \E n \in For(p, Counts) : Resize(p, n)
    \/ \E p \in Targets : Clear(p)
    \/ \E p \in Targets : ShrinkToFit(p)
    \/ \E p \in Targets : \E b \in For(p, Pointers) : AssignBuffer(p, b)
    \/ \E p \in Targets : \E c \in For(p, Texts) : AssignCstr(p, c)
    \/ \E p \in Targets : \E src \in For(p, Targets) : AssignString(p, src)
    \/ \E p \in Targets : \E b \in For(p, Pointers) : AppendBuffer(p, b)
    \/ \E p \in Targets : \E c \in For(p, Texts) : AppendCstr(p, c)
    \/ \E p \in Targets : \E src \in For(p, Targets) : AppendString(p, src)
    \/ \E p \in Targets : \E c \in For(p, Byte) : AppendChar(p, c)
    \/ \E p \in Targets : \E i \in For(p, Indexes), b \in For(p, Pointers) :
          InsertBuffer(p, i, b)
    \/ \E p \in Targets : \E i \in For(p, Indexes), c \in For(p, Texts) :
          InsertCstr(p, i, c)
    \/ \E p \in Targets : \E i \in For(p, Indexes), src \in For(p, Targets) :
          InsertString(p, i, src)
    \/ \E p \in Targets : \E i \in For(p, Indexes), c \in For(p, Byte) :
          InsertChar(p, i, c)
    \/ \E p \in Targets : \E i \in For(p, Indexes), n \in For(p, Counts) :
          Erase(p, i, n)
    \/ \E p \in Targets : PopBack(p)
    \/ \E p \in Targets : \E i \in For(p, Indexes), c \in For(p, Byte) : SetAt(p, i, c)
    \/ \E p \in Targets : ToUpper(p)
    \/ \E p \in Targets : ToLower(p)
    \/ \E p \in Targets : Trim(p)
    \/ \E p \in Targets : \E c \in For(p, Byte), d \in For(p, Byte) :
          ReplaceChar(p, c, d)
    \/ \E p \in Targets : \E f \in For(p, Templates), out \in For(p, Formats) :
          Format(p, f, out)
    \/ \E p \in Targets : \E f \in For(p, Templates), out \in For(p, Formats) :
          AppendFormat(p, f, out)
    \/ \E p \in Targets : \E buf \in For(p, Arrays), k \in For(p, 0..DestSize) :
          CopyToBuffer(p, buf, k)

Spec == Init /\ [][Next]_vars

(***************************************************************************)
(* Properties of Spec.                                                     *)
(***************************************************************************)
\* The strings a caller can look at: none once the process has faulted.
Alive == IF pc = "crashed" THEN {} ELSE Held

Failures == string_result_t \ {STRING_SUCCESS}

\* C1: in every reachable state every string has capacity >= length + 1.
C1_CapacityExceedsLength ==
    \A p \in Alive : strs[p].capacity >= strs[p].length + 1

\* C2: in every reachable state the byte at data[length] is a byte of the
\* string's buffer and is zero.
C2_Terminated ==
    \A p \in Alive :
        /\ strs[p].length < heap[strs[p].data].size
        /\ Cell(heap[strs[p].data], strs[p].length) = 0

\* C3: no call reads or writes the buffer at an offset >= its capacity.
C3_NoOverflow == fault # "overflow"

\* C4: a call that returns a result other than STRING_SUCCESS leaves the
\* content, length and capacity of every string as they were.
C4_FailureAtomic ==
    [][result' \in Failures =>
          /\ DOMAIN strs' = DOMAIN strs
          /\ \A p \in Held : View(heap', strs', p) = View(heap, strs, p)]_vars

\* A growth that failed on a non-empty string.
C4_Witness ==
    /\ result = STRING_ERROR_OUT_OF_MEMORY
    /\ \E p \in Held : strs[p].length > 0 /\ strs[p].capacity = strs[p].length + 1

(***************************************************************************)
(* SpecAppend: a string is created and appended to, by all four append     *)
(* functions, the string itself among the sources, with the calls          *)
(* recorded.                                                               *)
(***************************************************************************)
InitTraced == Start(MaxLen + 1, "full")

Letter == {0, 97}
Fragments == { ExtPtr(b) : b \in SeqsUpTo(Letter, MaxFrag) }
Words == { ExtPtr(b \o <<0>>) : b \in SeqsUpTo(Letter, MaxFrag) }

NextAppend ==
    \/ \E q \in One \ Held : Create(q)
    \/ \E q \in One \ Held, n \in Capacities : CreateWithCapacity(q, n)
    \/ \E q \in One \ Held, c \in Words : CreateFromCstr(q, c)
    \/ \E p \in Held : Destroy(p)
    \/ \E p \in Held, b \in Fragments : AppendBuffer(p, b)
    \/ \E p \in Held, c \in Words \cup {NullPtr} : AppendCstr(p, c)
    \/ \E p \in Held, src \in Targets : AppendString(p, src)
    \/ \E p \in Held, c \in Letter : AppendChar(p, c)

SpecAppend == InitTraced /\ [][NextAppend]_vars

\* C5: a string created empty holds, after any successful appends, the
\* appended fragments in call order, and its length is the sum of theirs.
C5_AppendsConcatenate ==
    hist.tracked /\ 1 \in Alive =>
        /\ Content(heap, strs, 1) = hist.bytes
        /\ strs[1].length = Len(hist.bytes)

\* C10: a successful string_create_with_capacity(n) gives length 0, a zero
\* byte at offset 0 and capacity >= max(n, 64); string_create() gives what
\* string_create_with_capacity(64) gives.
C10_CreateWithCapacity ==
    result = Created /\ last.op \in {"create", "create_with_capacity"} =>
        LET s == strs[last.tgt]
            n == IF last.op = "create" THEN STRING_DEFAULT_CAPACITY ELSE last.count
        IN  /\ s.length = 0
            /\ Cell(heap[s.data], 0) = 0
            /\ s.capacity >= Max(n, STRING_DEFAULT_CAPACITY)
            /\ last.op = "create" => s.capacity = STRING_DEFAULT_CAPACITY

(***************************************************************************)
(* SpecAssign: a string is created from bytes, shrunk, and assigned to by  *)
(* the three assign functions, the string itself among the sources, with   *)
(* the calls recorded.                                                     *)
(***************************************************************************)
NextAssign ==
    \/ \E q \in One \ Held, b \in Fragments : CreateFromBuffer(q, b)
    \/ \E p \in Held : ShrinkToFit(p)
    \/ \E p \in Held, b \in Fragments \cup {NullPtr} : AssignBuffer(p, b)
    \/ \E p \in Held, c \in Words \cup {NullPtr} : AssignCstr(p, c)
    \/ \E p \in Held, src \in Targets : AssignString(p, src)

SpecAssign == InitTraced /\ [][NextAssign]_vars

AssignOps == {"assign_buffer", "assign_cstr", "assign_string"}

\* C6: after a successful assignment the content is exactly the assigned
\* bytes (for string_assign_cstr those before the first zero) and the
\* length is their count, whatever the string held before.
C6_AssignReplaces ==
    last.op \in AssignOps /\ result = STRING_SUCCESS /\ last.tgt \in Alive =>
        /\ Content(heap, strs, last.tgt) = last.bytes
        /\ strs[last.tgt].length = Len(last.bytes)

\* A shorter, different content assigned over a longer one.
C6_Witness ==
    /\ last.op = "assign_buffer"
    /\ result = STRING_SUCCESS
    /\ Len(last.bytes) > 0
    /\ last.pre.length > Len(last.bytes)
    /\ SubSeq(last.pre.content, 1, Len(last.bytes)) # last.bytes

(***************************************************************************)
(* SpecUndo: a string is created from bytes, shrunk, inserted into and     *)
(* erased from, with the calls recorded.                                   *)
(***************************************************************************)
NextUndo ==
    \/ \E q \in One \ Held, b \in Fragments : CreateFromBuffer(q, b)
    \/ \E p \in Held : ShrinkToFit(p)
    \/ \E p \in Held, i \in 0..(MaxLen + 1), b \in Fragments : InsertBuffer(p, i, b)
    \/ \E p \in Held, i \in 0..(MaxLen + 1), n \in 0..MaxFrag : Erase(p, i, n)

SpecUndo == InitTraced /\ [][NextUndo]_vars

\* string_erase(s, i, n) called right after string_insert_buffer(s, i, b, n)
\* with i <= length(s).
Undoing ==
    /\ last.op = "erase"
    /\ last.tgt \in Alive
    /\ last.insert.ret # "none"
    /\ last.insert.index <= last.insert.pre.length
    /\ last.index = last.insert.index
    /\ last.count = Len(last.insert.bytes)

Restored ==
    /\ Content(heap, strs, last.tgt) = last.insert.pre.content
    /\ strs[last.tgt].length = last.insert.pre.length

\* C8 as stated: string_insert_buffer(s, i, b, n) followed by
\* string_erase(s, i, n) leaves the content and length of s as they were
\* before the insert, for every i <= length(s).
C8_InsertThenErase == Undoing => Restored

\* C8: string_insert_buffer(s, i, b, n) that returns STRING_SUCCESS followed
\* by string_erase(s, i, n) leaves the content and length of s as they were
\* before the insert, for every i <= length(s).
C8_SuccessfulInsertThenErase ==
    Undoing /\ last.insert.ret = STRING_SUCCESS => Restored

\* Bytes inserted in the middle of a string and erased again.
C8_Witness ==
    /\ Undoing
    /\ last.insert.ret = STRING_SUCCESS
    /\ result = STRING_SUCCESS
    /\ last.count > 0
    /\ 0 < last.index
    /\ last.index < last.insert.pre.length

(***************************************************************************)
(* SpecCopy: a string is created from bytes, appended to, and copied out   *)
(* into a caller's array of which the call is told the first k cells,      *)
(* with the calls recorded.                                                *)
(***************************************************************************)
NextCopy ==
    \/ \E q \in One \ Held, b \in Fragments : CreateFromBuffer(q, b)
    \/ \E p \in Held : Destroy(p)
    \/ \E p \in Held, c \in Letter : AppendChar(p, c)
    \/ \E p \in Targets, buf \in Arrays, k \in 0..DestSize : CopyToBuffer(p, buf, k)

SpecCopy == InitTraced /\ [][NextCopy]_vars

\* C9: string_copy_to_buffer(s, buf, k) writes nothing and returns
\* STRING_ERROR_BUFFER_TOO_SMALL for k = 0; for k >= 1 it writes the first
\* min(length, k - 1) bytes of s and one zero byte and nothing at offset k
\* or beyond; it returns STRING_SUCCESS exactly when k > length and
\* STRING_ERROR_BUFFER_TOO_SMALL when 1 <= k <= length; s is unchanged.
C9_CopyToBuffer ==
    last.op = "copy_to_buffer" /\ last.tgt \in Held /\ last.bytes # <<>> =>
        LET s == View(heap, strs, last.tgt)
            k == last.count
            m == Min(s.length, k - 1)
        IN  /\ s = last.pre
            /\ k = 0 => result = STRING_ERROR_BUFFER_TOO_SMALL /\ dest = last.bytes
            /\ k >= 1 =>
                  /\ Load(dest, 0, m) = SubSeq(s.content, 1, m)
                  /\ Load(dest, m, 1) = <<0>>
                  /\ \A j \in (m + 1)..(DestSize - 1) :
                        Load(dest, j, 1) = Load(last.bytes, j, 1)
                  /\ result = STRING_SUCCESS <=> k > s.length
                  /\ result = STRING_ERROR_BUFFER_TOO_SMALL <=> k <= s.length

\* A copy cut short by the size of the caller's array.
C9_Witness ==
    /\ last.op = "copy_to_buffer"
    /\ last.tgt \in Held
    /\ last.bytes # <<>>
    /\ last.count >= 2
    /\ last.count <= strs[last.tgt].length
    /\ result = STRING_ERROR_BUFFER_TOO_SMALL

(***************************************************************************)
(* SpecClone: string 1 is created from bytes, string 2 is its clone, and   *)
(* either is then changed or destroyed, with the calls recorded.           *)
(***************************************************************************)
Two == {2}
Marks == { ExtPtr(b) : b \in SeqsUpTo({97}, MaxFrag) }

NextClone ==
    \/ \E q \in One \ Held, b \in Fragments : CreateFromBuffer(q, b)
    \/ \E q \in Two \ Held, src \in Held : Clone(q, src)
    \/ \E p \in Held : Destroy(p)
    \/ \E p \in Held : ShrinkToFit(p)
    \/ \E p \in Held, b \in Marks : AssignBuffer(p, b)
    \/ \E p \in Held, src \in Held : AppendString(p, src)
    \/ \E p \in Held, c \in Letter : AppendChar(p, c)
    \/ \E p \in Held, i \in 0..1, n \in {1, SIZE_MAX} : Erase(p, i, n)
    \/ \E p \in Held, i \in 0..1 : SetAt(p, i, 97)

SpecClone == Start(MaxLen - 1, "brief") /\ [][NextClone]_vars

\* C7: a clone compares equal to its source and has a buffer of its own;
\* a call that changes one of the two strings, or destroys it, leaves the
\* content, length and capacity of the other as they were.
C7_CloneIndependent ==
    [][/\ last'.op = "clone" /\ result' = Created =>
             /\ string_compare(heap', strs', last'.src, last'.tgt) = 0
             /\ strs'[last'.tgt].data # strs'[last'.src].data
       /\ last'.op # "clone" /\ pc' # "crashed" =>
             \A q \in Held \ {last'.tgt} :
                 /\ q \in DOMAIN strs'
                 /\ View(heap', strs', q) = View(heap, strs, q)]_vars

\* The clone has been changed and its source has not.
C7_Witness ==
    /\ Held = {1, 2}
    /\ last.tgt = 2
    /\ last.op \in {"assign_buffer", "append_char", "erase", "set_at"}
    /\ result = STRING_SUCCESS
    /\ Content(heap, strs, 2) # Content(heap, strs, 1)
    /\ pc = "run"

(***************************************************************************)
(* SpecErase: a string is created from bytes, appended to and erased from, *)
(* at every index and with every kind of count, those near the top of      *)
(* size_t among them, with the calls recorded.                             *)
(***************************************************************************)
NextErase ==
    \/ \E q \in One \ Held, b \in Fragments : CreateFromBuffer(q, b)
    \/ \E p \in Held : Destroy(p)
    \/ \E p \in Held, c \in Letter : AppendChar(p, c)
    \/ \E p \in Held, i \in Indexes, n \in Counts : Erase(p, i, n)

SpecErase == InitTraced /\ [][NextErase]_vars

\* C11: string_erase(s, index, count) with index >= length returns
\* STRING_ERROR_INVALID_INDEX and changes nothing; with index < length it
\* returns STRING_SUCCESS for every count of size_t and removes exactly
\* m = min(count, length - index) bytes: the content becomes old[0..index)
\* followed by old[index + m..length) and the length decreases by m.
C11_Erase ==
    last.op = "erase" /\ last.tgt \in Alive =>
        LET old == last.pre
            i == last.index
            m == Min(last.count, old.length - i)
        IN  IF i >= old.length
            THEN /\ result = STRING_ERROR_INVALID_INDEX
                 /\ View(heap, strs, last.tgt) = old
            ELSE /\ result = STRING_SUCCESS
                 /\ Content(heap, strs, last.tgt) =
                        SubSeq(old.content, 1, i) \o SubSeq(old.content, i + m + 1, old.length)
                 /\ strs[last.tgt].length = old.length - m

\* C12: string_insert_buffer(s, index, b, n) with index > length returns
\* STRING_ERROR_INVALID_INDEX and changes nothing; with index <= length and
\* the growth succeeding the content becomes old[0..index), the n bytes of
\* b, old[index..length), the length grows by n, and at index = length the
\* content and length are those string_append_buffer(s, b, n) gives.
C12_InsertBuffer ==
    [][last'.op = "insert_buffer" /\ last'.tgt \in Held =>
          LET p == last'.tgt
              old == View(heap, strs, p)
              i == last'.index
              b == last'.bytes
              new == View(heap', strs', p)
          IN  IF i > old.length
              THEN result' = STRING_ERROR_INVALID_INDEX /\ new = old
              ELSE /\ result' \in {STRING_SUCCESS, STRING_ERROR_OUT_OF_MEMORY}
                   /\ result' = STRING_SUCCESS =>
                         /\ new.content = SubSeq(old.content, 1, i) \o b
                                             \o SubSeq(old.content, i + 1, old.length)
                         /\ new.length = old.length + Len(b)
                         /\ i = old.length =>
                               \E e \in string_append_buffer(heap, strs, p, ExtPtr(b), Len(b)) :
                                   /\ e.ret = STRING_SUCCESS
                                   /\ View(e.heap, e.strs, p).content = new.content
                                   /\ View(e.heap, e.strs, p).length = new.length]_vars

\* Bytes inserted in the middle of a full string, which had to grow.
C12_Witness ==
    /\ last.op = "insert_buffer"
    /\ result = STRING_SUCCESS
    /\ Len(last.bytes) > 0
    /\ 0 < last.index
    /\ last.index < last.pre.length
    /\ last.pre.capacity = last.pre.length + 1
    /\ last.tgt \in Held

(***************************************************************************)
(* SpecQuery: a string is created from bytes, zero bytes among them, then  *)
(* compared with null terminated sources and searched (for a byte, a       *)
(* source, the string itself), with the calls and what they return         *)
(* recorded.                                                               *)
(***************************************************************************)
Starts == 0..(MaxLen + 1) \cup {STRING_NPOS}

NextQuery ==
    \/ \E q \in One \ Held, b \in Fragments : CreateFromBuffer(q, b)
    \/ \E p \in Held : Destroy(p)
    \/ \E p \in Held, c \in Letter : AppendChar(p, c)
    \/ \E p \in Targets : \E c \in For(p, Words \cup {NullPtr}) : CompareCstr(p, c)
    \/ \E p \in Targets : \E c \in For(p, Words \cup {NullPtr}) : EqualsCstr(p, c)
    \/ \E p \in Targets : \E c \in For(p, Letter), i \in For(p, Starts) : FindChar(p, c, i)
    \/ \E p \in Targets : \E c \in For(p, Words \cup {NullPtr}), i \in For(p, Starts) :
          FindCstr(p, c, i)
    \/ \E p \in Targets : \E src \in For(p, Targets), i \in For(p, Starts) :
          FindString(p, src, i)
    \/ \E p \in Targets : \E c \in For(p, Letter), i \in For(p, Starts) : RfindChar(p, c, i)

SpecQuery == InitTraced /\ [][NextQuery]_vars

Sign(n) == IF n < 0 THEN 0 - 1 ELSE IF n > 0 THEN 1 ELSE 0

\* The lexicographic order of two byte sequences, the shorter first when
\* one is a prefix of the other: -1, 0 or 1.
Lex(x, y) ==
    LET D == {k \in 1..Min(Len(x), Len(y)) : x[k] # y[k]}
    IN  IF D = {} THEN Sign(Len(x) - Len(y))
        ELSE LET k == CHOOSE k \in D : \A j \in D : k <= j
             IN  Sign(x[k] - y[k])

\* C13: string_compare_cstr(a, text) and string_equals_cstr(a, text) take
\* all length bytes of a, zero bytes included, as the left operand: the
\* result is 0 (true) exactly when a's content is the bytes of text before
\* its first zero, and otherwise has the sign of their lexicographic order
\* with the length as tie-break.
C13_CompareCstr ==
    last.op \in {"compare_cstr", "equals_cstr"} /\ last.tgt \in Held /\ last.bytes # <<>> =>
        LET a == Content(heap, strs, last.tgt)
            text == UpToZero(last.bytes, 0)
        IN  IF last.op = "compare_cstr"
            THEN Sign(result) = Lex(a, text)
            ELSE result = (a = text)

\* The smallest offset i >= start at which the pattern lies in the content,
\* STRING_NPOS when there is none.
FirstMatch(content, pattern, start) ==
    LET M == {i \in start..(Len(content) - Len(pattern)) :
                 SubSeq(content, i + 1, i + Len(pattern)) = pattern}
    IN  IF M = {} THEN STRING_NPOS ELSE CHOOSE i \in M : \A j \in M : i <= j

\* C15: string_find_cstr and string_find_string from position start return
\* the smallest offset i >= start with i + pattern_length <= length at which
\* the bytes equal the pattern, and STRING_NPOS when there is none; an empty
\* pattern gives start for every start <= length; the pattern of
\* string_find_string is the whole content of the pattern string.
C15_Find ==
    /\ last.op = "find_cstr" /\ last.tgt \in Held /\ last.bytes # <<>> =>
          result = FirstMatch(Content(heap, strs, last.tgt), UpToZero(last.bytes, 0),
                              last.index)
    /\ last.op = "find_string" /\ last.tgt \in Held /\ last.src \in Held =>
          result = FirstMatch(Content(heap, strs, last.tgt),
                              Content(heap, strs, last.src), last.index)

\* The offsets of the byte c in a content.
Places(content, c) == {i \in 0..(Len(content) - 1) : content[i + 1] = c}

\* C16: string_rfind_char(s, c, start) returns the largest index
\* i <= min(start, length - 1) whose byte is c, index 0 included, and
\* STRING_NPOS when there is none or s is empty or NULL; a start of
\* STRING_NPOS, or any start >= length, begins at the last byte.
C16_RfindChar ==
    last.op = "rfind_char" =>
        IF last.tgt \notin Held THEN result = STRING_NPOS
        ELSE LET s == View(heap, strs, last.tgt)
                 M == {i \in Places(s.content, last.bytes[1]) :
                          i <= Min(last.index, s.length - 1)}
             IN  IF M = {} THEN result = STRING_NPOS
                 ELSE result \in M /\ \A i \in M : i <= result

\* A backward scan from the end that went down to index 0.
C16_Witness ==
    /\ last.op = "rfind_char"
    /\ last.tgt \in Held
    /\ last.index = STRING_NPOS
    /\ strs[last.tgt].length >= 2
    /\ result = 0

\* C17: string_find_char(s, c, start) returns the smallest index i with
\* start <= i < length whose byte is c, and STRING_NPOS when start >= length,
\* when s is NULL or when there is none; never an index >= length.
C17_FindChar ==
    last.op = "find_char" =>
        IF last.tgt \notin Held THEN result = STRING_NPOS
        ELSE LET s == View(heap, strs, last.tgt)
                 M == {i \in Places(s.content, last.bytes[1]) : i >= last.index}
             IN  /\ IF M = {} THEN result = STRING_NPOS
                    ELSE result \in M /\ \A i \in M : result <= i
                 /\ result = STRING_NPOS \/ result < s.length

\* A forward scan that passed an earlier occurrence of the byte.
C17_Witness ==
    /\ last.op = "find_char"
    /\ last.tgt \in Held
    /\ last.index > 0
    /\ result # STRING_NPOS
    /\ result > last.index
    /\ 0 \in Places(Content(heap, strs, last.tgt), last.bytes[1])

(***************************************************************************)
(* SpecPair: two strings are created from bytes and compared, with each    *)
(* other, with themselves and with NULL, with the calls and what they      *)
(* return recorded.                                                        *)
(***************************************************************************)
Both == One \cup Two

NextPair ==
    \/ \E q \in Both \ Held, b \in Fragments : CreateFromBuffer(q, b)
    \/ \E p \in Held : Destroy(p)
    \/ \E a \in Targets, b \in Targets : Compare(a, b)
    \/ \E a \in Targets, b \in Targets : Equals(a, b)

SpecPair == InitTraced /\ [][NextPair]_vars

\* C14: string_compare(a, b) is 0 for two NULLs, negative when only a is
\* NULL, positive when only b is NULL, and for two strings has the sign of
\* the lexicographic order of their bytes, the shorter first when one is a
\* prefix of the other; so string_compare(a, a) = 0, the sign of
\* string_compare(b, a) is the opposite one, and string_equals(a, b) holds
\* exactly when string_compare(a, b) = 0.
C14_CompareOrder ==
    last.op \in {"compare", "equals"} =>
        LET a == last.tgt
            b == last.src
            cmp == string_compare(heap, strs, a, b)
            order == IF a = 0 /\ b = 0 THEN 0
                     ELSE IF a = 0 THEN 0 - 1
                     ELSE IF b = 0 THEN 1
                     ELSE Lex(Content(heap, strs, a), Content(heap, strs, b))
        IN  IF last.op = "compare"
            THEN /\ Sign(result) = order
                 /\ a = b => result = 0
                 /\ Sign(string_compare(heap, strs, b, a)) = 0 - Sign(result)
            ELSE result = (Sign(cmp) = 0) /\ result = (order = 0)

\* A string compared with a longer one that starts with it.
C14_Witness ==
    /\ last.op = "compare"
    /\ last.tgt \in Held
    /\ last.src \in Held
    /\ strs[last.tgt].length > 0
    /\ strs[last.tgt].length < strs[last.src].length
    /\ Content(heap, strs, last.tgt) =
           SubSeq(Content(heap, strs, last.src), 1, strs[last.tgt].length)
    /\ result < 0

(***************************************************************************)
(* SpecResize: a string is created from bytes, shrunk, truncated (by       *)
(* string_clear, string_pop_back, string_resize) and resized, to lengths   *)
(* below and above its own and to SIZE_MAX, with the calls recorded.       *)
(***************************************************************************)
NextResize ==
    \/ \E q \in One \ Held, b \in Fragments : CreateFromBuffer(q, b)
    \/ \E p \in Held : ShrinkToFit(p)
    \/ \E p \in Held : Clear(p)
    \/ \E p \in Held : PopBack(p)
    \/ \E p \in Held, n \in 0..(MaxLen + 1) \cup {SIZE_MAX} : Resize(p, n)

SpecResize == InitTraced /\ [][NextResize]_vars

\* C18: a successful string_resize(s, n) sets the length to n and writes a
\* zero byte at offset n; the bytes at [0, min(old length, n)) keep their
\* values and, when n > old length, every byte at [old length, n) is zero,
\* whatever those positions held before.
C18_Resize ==
    last.op = "resize" /\ result = STRING_SUCCESS /\ last.tgt \in Alive =>
        LET old == last.pre
            n == last.count
            k == Min(old.length, n)
        IN  /\ strs[last.tgt].length = n
            /\ Cell(heap[strs[last.tgt].data], n) = 0
            /\ Content(heap, strs, last.tgt) =
                   SubSeq(old.content, 1, k) \o [j \in 1..(n - k) |-> 0]

\* C19 as stated: string_shrink_to_fit returns STRING_SUCCESS, leaves content
\* and length unchanged and sets the capacity to length + 1 when that is
\* smaller than the capacity (no change otherwise); a second call right
\* after it returns STRING_SUCCESS, reallocates nothing and changes nothing.
C19_ShrinkToFit ==
    [][last'.op = "shrink_to_fit" /\ last'.tgt \in Held =>
          LET old == View(heap, strs, last'.tgt)
              new == View(heap', strs', last'.tgt)
          IN  /\ result' = STRING_SUCCESS
              /\ new.content = old.content
              /\ new.length = old.length
              /\ new.capacity = Min(old.capacity, old.length + 1)
              /\ last'.first # "none" => heap' = heap /\ strs' = strs]_vars

\* C19: string_shrink_to_fit leaves content and length unchanged; it returns
\* STRING_SUCCESS with the capacity set to length + 1 when that is smaller
\* than the capacity and the reallocation succeeds, STRING_ERROR_OUT_OF_MEMORY
\* with nothing changed when the reallocation fails, and STRING_SUCCESS with
\* nothing changed when length + 1 is not smaller; a second call right after
\* one that returned STRING_SUCCESS returns STRING_SUCCESS, reallocates
\* nothing and changes nothing.
C19_ShrinkToFitUnlessOutOfMemory ==
    [][last'.op = "shrink_to_fit" /\ last'.tgt \in Held =>
          LET old == View(heap, strs, last'.tgt)
              new == View(heap', strs', last'.tgt)
          IN  /\ result' \in {STRING_SUCCESS, STRING_ERROR_OUT_OF_MEMORY}
              /\ new.content = old.content
              /\ new.length = old.length
              /\ result' = STRING_SUCCESS =>
                    new.capacity = Min(old.capacity, old.length + 1)
              /\ result' = STRING_ERROR_OUT_OF_MEMORY =>
                    /\ old.length + 1 < old.capacity
                    /\ heap' = heap /\ strs' = strs
              /\ old.length + 1 >= old.capacity =>
                    /\ result' = STRING_SUCCESS
                    /\ heap' = heap /\ strs' = strs
              /\ last'.first = STRING_SUCCESS =>
                    /\ result' = STRING_SUCCESS
                    /\ heap' = heap /\ strs' = strs]_vars

\* A second shrink right after one that reallocated the buffer.
C19_Witness ==
    /\ last.op = "shrink_to_fit"
    /\ last.first = STRING_SUCCESS
    /\ result = STRING_SUCCESS
    /\ last.tgt \in Held
    /\ strs[last.tgt].capacity = strs[last.tgt].length + 1
    /\ strs[last.tgt].capacity < STRING_DEFAULT_CAPACITY

(***************************************************************************)
(* SpecTrim: a string is created empty, filled byte by byte with letters   *)
(* and the six whitespace bytes, and trimmed, with the calls recorded.     *)
(***************************************************************************)
Whitespace == {32, 9, 10, 13, 11, 12}

NextTrim ==
    \/ \E q \in One \ Held : Create(q)
    \/ \E p \in Held : Destroy(p)
    \/ \E p \in Held, c \in Whitespace \cup {97} : AppendChar(p, c)
    \/ \E p \in Targets : Trim(p)

SpecTrim == Start(MaxLen + 2, "full") /\ [][NextTrim]_vars

\* A content without its longest prefix and its longest suffix of
\* whitespace bytes.
Trimmed(x) ==
    LET N == {k \in 1..Len(x) : x[k] \notin Whitespace}
    IN  IF N = {} THEN <<>>
        ELSE SubSeq(x, CHOOSE k \in N : \A j \in N : k <= j,
                       CHOOSE k \in N : \A j \in N : k >= j)

\* C20: string_trim on a non-empty string returns STRING_SUCCESS and leaves
\* the content without its leading and trailing whitespace bytes (space,
\* tab, newline, carriage return, vertical tab, form feed), the whitespace
\* inside kept and the capacity unchanged, a terminated string of length 0
\* when every byte is whitespace; on an empty string or NULL it returns
\* STRING_ERROR_NULL_POINTER and changes nothing.
C20_Trim ==
    [][last'.op = "trim" =>
          IF last'.tgt \notin Held \/ strs[last'.tgt].length = 0
          THEN /\ result' = STRING_ERROR_NULL_POINTER
               /\ heap' = heap /\ strs' = strs
          ELSE LET old == View(heap, strs, last'.tgt)
                   new == View(heap', strs', last'.tgt)
               IN  /\ result' = STRING_SUCCESS
                   /\ new.content = Trimmed(old.content)
                   /\ new.length = Len(Trimmed(old.content))
                   /\ new.capacity = old.capacity
                   /\ Cell(heap'[strs'[last'.tgt].data], new.length) = 0]_vars

\* Leading whitespace removed, with the whitespace inside kept.
C20_Witness ==
    /\ last.op = "trim"
    /\ result = STRING_SUCCESS
    /\ last.pre.length = MaxLen + 2
    /\ last.pre.content[1] \in Whitespace
    /\ last.tgt \in Held
    /\ strs[last.tgt].length = MaxLen + 1
    /\ \E k \in 2..MaxLen : Content(heap, strs, last.tgt)[k] \in Whitespace

(***************************************************************************)
(* SpecScenario: the strings of the example program are created from its   *)
(* two literals and appended to each other, with the calls recorded.       *)
(***************************************************************************)
\* "Hello, " and "Safe World!" as the compiler lays them out.
Hello == ExtPtr(<<72, 101, 108, 108, 111, 44, 32, 0>>)
SafeWorld == ExtPtr(<<83, 97, 102, 101, 32, 87, 111, 114, 108, 100, 33, 0>>)

NextScenario ==
    \/ \E q \in Both \ Held, c \in {Hello, SafeWorld} : CreateFromCstr(q, c)
    \/ \E p \in Held : Destroy(p)
    \/ \E p \in Held, src \in Targets : AppendString(p, src)

SpecScenario ==
    Start(Len(Hello.bytes) + Len(SafeWorld.bytes), "full") /\ [][NextScenario]_vars

\* string_append_string(str1, str2) called with str1 holding "Hello, " and
\* str2 holding "Safe World!".
Scenario ==
    /\ last.op = "append_string"
    /\ last.tgt \in Held
    /\ last.src \in Held \ {last.tgt}
    /\ last.pre.content = Text(Hello)
    /\ last.bytes = Text(SafeWorld)

\* C21 as stated: string_create_from_cstr("Hello, ") followed by
\* string_append_string with string_create_from_cstr("Safe World!") gives the
\* content "Hello, Safe World!" with length 19.
C21_HelloSafeWorld ==
    Scenario =>
        /\ result = STRING_SUCCESS
        /\ Content(heap, strs, last.tgt) = Text(Hello) \o Text(SafeWorld)
        /\ strs[last.tgt].length = 19

\* C21: string_create_from_cstr("Hello, ") followed by string_append_string
\* with string_create_from_cstr("Safe World!") gives the content
\* "Hello, Safe World!", whose length is 18 (7 bytes followed by 11).
C21_HelloSafeWorldLength ==
    Scenario =>
        /\ result = STRING_SUCCESS
        /\ Content(heap, strs, last.tgt) = Text(Hello) \o Text(SafeWorld)
        /\ string_cstr(heap, strs, last.tgt) = Text(Hello) \o Text(SafeWorld)
        /\ strs[last.tgt].length = 18
        /\ string_length(strs, last.tgt) = Len(Text(Hello)) + Len(Text(SafeWorld))
        /\ Content(heap, strs, last.src) = Text(SafeWorld)

\* The example's append has been made.
C21_Witness ==
    /\ Scenario
    /\ result = STRING_SUCCESS
    /\ last.pre.capacity = STRING_DEFAULT_CAPACITY
    /\ strs[last.tgt].length > strs[last.src].length

(***************************************************************************)
(* Properties of Spec: termination and growth.                             *)
(***************************************************************************)
\* C22: every call returns, for every argument of size_t and from every
\* capacity: the doubling loop of string_calculate_growth always ends.
C22_Terminates == pc # "hung"

(***************************************************************************)
(* SpecNoop: a string is created from bytes, shrunk so that any growth     *)
(* has to reallocate, and appended to and inserted into, with absent and   *)
(* empty sources and the string itself among the arguments, with the calls *)
(* recorded.                                                               *)
(***************************************************************************)
SomeBuffers == {NullPtr, ExtPtr(<<>>), ExtPtr(<<97>>)}
SomeTexts == {NullPtr, ExtPtr(<<0>>), ExtPtr(<<97, 0>>)}

NextNoop ==
    \/ \E q \in One \ Held, b \in Fragments : CreateFromBuffer(q, b)
    \/ \E p \in Held : ShrinkToFit(p)
    \/ \E p \in Held, b \in SomeBuffers : AppendBuffer(p, b)
    \/ \E p \in Held, c \in SomeTexts : AppendCstr(p, c)
    \/ \E p \in Held, src \in Targets : AppendString(p, src)
    \/ \E p \in Held, i \in Indexes, c \in SomeTexts : InsertCstr(p, i, c)
    \/ \E p \in Held, i \in Indexes, src \in Targets : InsertString(p, i, src)

SpecNoop == InitTraced /\ [][NextNoop]_vars

\* C23: on a string, string_append_cstr, string_append_string,
\* string_insert_cstr and string_insert_string with a NULL source, and
\* string_append_buffer with length 0, return STRING_SUCCESS and leave the
\* content, length, capacity and buffer as they were: the one outcome of
\* each such call is the memory before it.
C23_AbsentSourceNoop ==
    \A p \in Alive :
        LET Same == { Outcome(heap, strs, STRING_SUCCESS) }
        IN  /\ string_append_cstr(heap, strs, p, NullPtr) = Same
            /\ string_append_string(heap, strs, p, 0) = Same
            /\ \A b \in Pointers : string_append_buffer(heap, strs, p, b, 0) = Same
            /\ \A i \in Indexes :
                  /\ string_insert_cstr(heap, strs, p, i, NullPtr) = Same
                  /\ string_insert_string(heap, strs, p, i, 0) = Same

\* An insert of an absent string into a full, non-empty string has returned.
C23_Witness ==
    /\ last.op = "insert_string"
    /\ last.src = 0
    /\ last.tgt \in Held
    /\ result = STRING_SUCCESS
    /\ View(heap, strs, last.tgt) = last.pre
    /\ last.pre.length > 0
    /\ last.pre.capacity = last.pre.length + 1

(***************************************************************************)
(* SpecFormat: a string is created from bytes, shrunk, and formatted and   *)
(* appended to with every kind of output of vsnprintf: none, short, of     *)
(* INT_MAX bytes, an encoding error; with the calls recorded.              *)
(***************************************************************************)
NextFormat ==
    \/ \E q \in One \ Held, b \in Fragments : CreateFromBuffer(q, b)
    \/ \E p \in Held : ShrinkToFit(p)
    \/ \E p \in Targets : \E f \in For(p, Templates), out \in For(p, Formats) :
          Format(p, f, out)
    \/ \E p \in Targets : \E f \in For(p, Templates), out \in For(p, Formats) :
          AppendFormat(p, f, out)

SpecFormat == InitTraced /\ [][NextFormat]_vars

\* C24: with vsnprintf yielding the r >= 0 bytes F, or a negative length,
\* string_format returns STRING_ERROR_INVALID_ARGUMENT and changes nothing for
\* a negative length, and on success leaves the content F, the length r and
\* a zero byte at offset r; string_append_format on success leaves the old
\* content followed by F and the old length plus r; either, on a failure,
\* leaves content and length as they were.
C24_Format ==
    [][last'.op \in {"format", "append_format"} /\ last'.tgt \in Held =>
          LET p == last'.tgt
              old == View(heap, strs, p)
              new == View(heap', strs', p)
              F == last'.bytes
              r == last'.count
          IN  /\ r < 0 /\ result' # STRING_ERROR_NULL_POINTER =>
                    result' = STRING_ERROR_INVALID_ARGUMENT /\ new = old
              /\ result' = STRING_SUCCESS /\ last'.op = "format" =>
                    /\ new.content = F
                    /\ new.length = r
                    /\ Cell(heap'[strs'[p].data], r) = 0
              /\ result' = STRING_SUCCESS /\ last'.op = "append_format" =>
                    /\ new.content = old.content \o F
                    /\ new.length = old.length + r
              /\ result' \in Failures =>
                    new.content = old.content /\ new.length = old.length]_vars

(***************************************************************************)
(* SpecReserve: a string is created empty with every capacity of size_t,   *)
(* or from bytes, shrunk, and reserved for, with the calls recorded.       *)
(***************************************************************************)
NextReserve ==
    \/ \E q \in One \ Held, n \in 0..SIZE_MAX : CreateWithCapacity(q, n)
    \/ \E q \in One \ Held, b \in Fragments : CreateFromBuffer(q, b)
    \/ \E p \in Held : Destroy(p)
    \/ \E p \in Held : ShrinkToFit(p)
    \/ \E p \in Targets : \E n \in For(p, Reserves) : Reserve(p, n)

SpecReserve == InitTraced /\ [][NextReserve]_vars

\* C25: a string_reserve(s, n) that returns STRING_SUCCESS leaves the
\* capacity >= n and >= the capacity before, and the length and the bytes
\* at [0, length] as they were; with n <= capacity it returns STRING_SUCCESS
\* and changes nothing at all.  For every n of size_t.
C25_Reserve ==
    \A p \in Alive : \A n \in 0..SIZE_MAX :
        \A e \in string_reserve(heap, strs, p, n) :
            LET old == strs[p]
                new == e.strs[p]
            IN  /\ e.ret = STRING_SUCCESS =>
                      /\ new.capacity >= n
                      /\ new.capacity >= old.capacity
                      /\ new.length = old.length
                      /\ BLoad(e.heap[new.data], 0, new.length + 1)
                             = BLoad(heap[old.data], 0, old.length + 1)
                /\ n <= old.capacity => e = Outcome(heap, strs, STRING_SUCCESS)

\* A reserve that moved a non-empty string to a larger buffer.
C25_Witness ==
    /\ last.op = "reserve"
    /\ result = STRING_SUCCESS
    /\ last.tgt \in Held
    /\ last.pre.length > 0
    /\ last.count > last.pre.capacity
    /\ strs[last.tgt].capacity > last.count
    /\ strs[last.tgt].data # 1

(***************************************************************************)
(* SpecGrowth: a string is created empty with every capacity of size_t, or *)
(* from bytes, shrunk, and grown byte by byte, with the calls recorded.    *)
(***************************************************************************)
NextGrowth ==
    \/ \E q \in One \ Held, n \in 0..SIZE_MAX : CreateWithCapacity(q, n)
    \/ \E q \in One \ Held, b \in Fragments : CreateFromBuffer(q, b)
    \/ \E p \in Held : Destroy(p)
    \/ \E p \in Held : ShrinkToFit(p)
    \/ \E p \in Held : AppendChar(p, 97)
    \/ \E p \in Held, i \in 0..1 : InsertChar(p, i, 97)

SpecGrowth == InitTraced /\ [][NextGrowth]_vars

\* The smallest c * 2^k with k >= 1 that is >= required, for c >= 1.
Doubled(c, required) ==
    LET K == {k \in 1..SizeBits : c * 2 ^ k >= required}
    IN  c * 2 ^ (CHOOSE k \in K : \A j \in K : k <= j)

\* C26: string_ensure_capacity returns STRING_SUCCESS and changes nothing
\* whenever capacity >= required; when more than the capacity c is required
\* and the reallocation succeeds, the new capacity is the smallest c * 2^k
\* (k >= 1) that is >= required, c being the capacity the string has at the
\* call (length + 1 after string_shrink_to_fit), not the default 64.
C26_Growth ==
    /\ \A p \in Alive : \A required \in 0..SIZE_MAX :
          \A e \in string_ensure_capacity(heap, strs, p, required) :
              LET c == strs[p].capacity
              IN  /\ c >= required => e = Outcome(heap, strs, STRING_SUCCESS)
                  /\ c < required /\ e.ret = STRING_SUCCESS =>
                        e.strs[p].capacity = Doubled(c, required)
    /\ last.op \in {"append_char", "insert_char"} /\ result = STRING_SUCCESS
           /\ last.tgt \in Alive /\ last.pre.length + 2 > last.pre.capacity =>
          strs[last.tgt].capacity = Doubled(last.pre.capacity, last.pre.length + 2)

(***************************************************************************)
(* SpecView: string 1 comes from a constructor and is appended to;         *)
(* string 2 is a string_t the caller has set up over its own array with    *)
(* is_owner false, on which every function that may grow or shrink the     *)
(* buffer is called, with the calls recorded.                              *)
(***************************************************************************)
Views == Held \ One

NextView ==
    \/ \E q \in One \ Held, b \in Marks : CreateFromBuffer(q, b)
    \/ \E q \in Two \ Held, b \in SeqsUpTo({97}, MaxFrag), n \in 1..2 :
          Borrow(q, b, Len(b) + n)
    \/ \E p \in Held : Destroy(p)
    \/ \E p \in Held : AppendChar(p, 97)
    \/ \E p \in Views : ShrinkToFit(p)
    \/ \E p \in Views, n \in Reserves : Reserve(p, n)
    \/ \E p \in Views, n \in 0..(MaxLen + 1) \cup {SIZE_MAX} : Resize(p, n)
    \/ \E p \in Views, b \in Marks : AssignBuffer(p, b)
    \/ \E p \in Views, src \in Held : AppendString(p, src)
    \/ \E p \in Views : InsertChar(p, 0, 97)
    \/ \E p \in Views, out \in Formats : Format(p, ExtPtr(<<0>>), out)
    \/ \E p \in Views, out \in Formats : AppendFormat(p, ExtPtr(<<0>>), out)

SpecView == Start(MaxLen, "full") /\ [][NextView]_vars

\* The capacity the call recorded in c asks of a string with the view v.
Needed(c, v) ==
    IF c.op = "reserve" THEN c.count
    ELSE IF c.op = "resize" THEN c.count + 1
    ELSE IF c.op \in {"assign_buffer", "format"} THEN Len(c.bytes) + 1
    ELSE IF c.op \in {"append_char", "append_string", "insert_char", "append_format"}
    THEN v.length + Len(c.bytes) + 1
    ELSE 0

\* C27: no call reallocates or replaces the buffer of a string whose
\* is_owner flag is false: every call that needs more than its capacity, and
\* string_shrink_to_fit, leaves data, length and capacity as they were and
\* what it returns is STRING_ERROR_NULL_POINTER; and every string that comes
\* from a constructor has is_owner true, whatever is called on it.
C27_NonOwner ==
    [][/\ \A p \in One \cap DOMAIN strs' : strs'[p].is_owner
       /\ \A p \in Held :
             ~strs[p].is_owner /\ last'.op # "destroy" =>
                 /\ p \in DOMAIN strs'
                 /\ strs'[p].data = strs[p].data
                 /\ strs'[p].capacity = strs[p].capacity
                 /\ ~strs'[p].is_owner
                 /\ heap'[strs[p].data].size = heap[strs[p].data].size
                 /\ last'.tgt = p /\ (last'.op = "shrink_to_fit"
                                      \/ Needed(last', View(heap, strs, p)) > strs[p].capacity) =>
                       /\ pc' \in {"run", "ub"} => result' = STRING_ERROR_NULL_POINTER
                       /\ strs' = strs
                       /\ heap' = heap]_vars

\* An append to a full string that does not own its buffer was refused.
C27_Witness ==
    /\ last.op = "append_char"
    /\ last.tgt \in Held
    /\ ~strs[last.tgt].is_owner
    /\ last.pre.length > 0
    /\ last.pre.capacity = last.pre.length + 1
    /\ result = STRING_ERROR_NULL_POINTER
    /\ View(heap, strs, last.tgt) = last.pre

(***************************************************************************)
(* SpecCapacity: a string is created, with the default capacity or a       *)
(* smaller one, and every function that changes a string is called on it,  *)
(* with the function called recorded.                                      *)
(***************************************************************************)
NextCapacity ==
    \/ \E q \in One \ Held, n \in Capacities : CreateWithCapacity(q, n)
    \/ \E q \in One \ Held, b \in Fragments : CreateFromBuffer(q, b)
    \/ \E p \in Held : Destroy(p)
    \/ \E p \in Held, n \in Reserves : Reserve(p, n)
    \/ \E p \in Held, n \in Counts : Resize(p, n)
    \/ \E p \in Held : Clear(p)
    \/ \E p \in Held : ShrinkToFit(p)
    \/ \E p \in Held, b \in Marks \cup {NullPtr} : AssignBuffer(p, b)
    \/ \E p \in Held, c \in SomeTexts : AssignCstr(p, c)
    \/ \E p \in Held, src \in Targets : AssignString(p, src)
    \/ \E p \in Held, b \in Marks : AppendBuffer(p, b)
    \/ \E p \in Held, c \in SomeTexts : AppendCstr(p, c)
    \/ \E p \in Held, src \in Targets : AppendString(p, src)
    \/ \E p \in Held, c \in Letter : AppendChar(p, c)
    \/ \E p \in Held, i \in Indexes, b \in Marks : InsertBuffer(p, i, b)
    \/ \E p \in Held, i \in Indexes, c \in SomeTexts : InsertCstr(p, i, c)
    \/ \E p \in Held, i \in Indexes, src \in Targets : InsertString(p, i, src)
    \/ \E p \in Held, i \in Indexes : InsertChar(p, i, 32)
    \/ \E p \in Held, i \in Indexes, n \in Counts : Erase(p, i, n)
    \/ \E p \in Held : PopBack(p)
    \/ \E p \in Held, i \in Indexes : SetAt(p, i, 32)
    \/ \E p \in Held : ToUpper(p)
    \/ \E p \in Held : ToLower(p)
    \/ \E p \in Held : Trim(p)
    \/ \E p \in Held : ReplaceChar(p, 97, 32)
    \/ \E p \in Held, out \in Formats : Format(p, ExtPtr(<<0>>), out)
    \/ \E p \in Held, out \in Formats : AppendFormat(p, ExtPtr(<<0>>), out)

SpecCapacity == Start(MaxLen, "brief") /\ [][NextCapacity]_vars

\* C28: across a call of any function but string_shrink_to_fit, the
\* capacity of a string that is still there after the call is >= its
\* capacity before: string_clear, string_erase, string_pop_back, string_trim,
\* string_resize to less, an assignment of less, a format of less and
\* string_reserve of less leave it as it was.
C28_CapacityKept ==
    [][last'.op # "shrink_to_fit" =>
          \A p \in Held \cap DOMAIN strs' : strs'[p].capacity >= strs[p].capacity]_vars

\* A string with a capacity above the default was cleared.
C28_Witness ==
    /\ last.op = "clear"
    /\ last.tgt \in Held
    /\ strs[last.tgt].length = 0
    /\ strs[last.tgt].capacity > STRING_DEFAULT_CAPACITY
    /\ result = STRING_SUCCESS

(***************************************************************************)
(* Properties of SpecAppend and SpecNoop: a string as its own source.      *)
(***************************************************************************)
\* C29: string_append_string(s, s) on a non-empty s gives the old content
\* followed by the old content, with the length doubled, also when the
\* buffer is reallocated and moved; no byte is read from a released buffer.
C29_SelfAppend ==
    last.op = "append_string" /\ last.src = last.tgt /\ last.tgt \in Held
        /\ last.pre.length > 0 /\ result \in {STRING_SUCCESS, "none"} =>
        /\ fault # "use_after_free"
        /\ pc # "crashed" =>
              /\ Content(heap, strs, last.tgt) = last.pre.content \o last.pre.content
              /\ strs[last.tgt].length = 2 * last.pre.length

\* C30: string_insert_string(s, i, s) with i <= length gives old[0..i), the
\* whole old content, old[i..length), with the length doubled: the bytes
\* inserted are those s held before the call.
C30_SelfInsert ==
    last.op = "insert_string" /\ last.src = last.tgt /\ last.tgt \in Alive
        /\ last.index <= last.pre.length /\ result = STRING_SUCCESS =>
        LET old == last.pre.content
            i == last.index
        IN  /\ Content(heap, strs, last.tgt) =
                   SubSeq(old, 1, i) \o old \o SubSeq(old, i + 1, last.pre.length)
            /\ strs[last.tgt].length = 2 * last.pre.length

====
